---- MODULE Spec2Model ----
(***************************************************************************)
(* Task / subtask lifecycle and the offset-based streaming resume protocol *)
(* of the Wegent backend.                                                  *)
(*                                                                         *)
(*   SpecStream : one streamed ASSISTANT subtask, its producer, and a      *)
(*                client that resumes the stream (chat.py,                 *)
(*                _handle_resume_stream).                                  *)
(*   Spec       : the kinds/subtasks tables under create_task_or_append,   *)
(*                update_task, delete_task and cancel_chat.                *)
(***************************************************************************)
EXTENDS Integers, Sequences, FiniteSets, TLC

\* ------------------------------------------------------------------ bounds
MaxLen == 3          \* characters the producer streams for the subtask
MaxResumes == 2      \* resume calls the client makes

\* ------------------------------------------------------------ stream state
VARIABLES
    row,             \* the durable Subtask row: status, result, error_message
    cache,           \* streaming cache entry: accumulated content of the subtask
    pc,              \* position of the resume generator
    offset,          \* offset supplied to the resume call
    current_offset,  \* generate_resume's cursor
    subtask,         \* the ORM object held by the handler (last db.refresh)
    pubsub,          \* TRUE while the handler holds a channel subscription
    inbox,           \* messages published to the subscription, not yet read
    out,             \* SSE events the current call has emitted
    http,            \* HTTP status of the current call
    mode,            \* which generator serves the current call
    received,        \* content events the client has received, in arrival order
    resumes,         \* number of resume calls made
    disciplined,     \* every call so far supplied the client's own position
    prev,            \* the previous call served by generate_completed
    exit,            \* the path by which the current call's generator ended
    completed_at     \* where the handler stood when the subtask completed

streamVars == <<row, cache, pc, offset, current_offset, subtask, pubsub, inbox,
                out, http, mode, received, resumes, disciplined, prev, exit,
                completed_at>>

\* --------------------------------------------------------- lifecycle state
VARIABLES
    kinds,           \* the kinds table: id -> document (Task, Workspace, Placeholder)
    next_id,         \* the kinds table's auto-increment counter
    subtasks,        \* the subtasks table: sequence of rows, id = index
    lastOp,          \* the last request handled and what it returned
    calls,           \* requests in flight, run statement by statement
    shared_tasks,    \* the shared_tasks table: sequence of relations
    attachments,     \* the subtask_attachments table: sequence of rows
    copy,            \* the join_shared_task request in flight and its session
    copied,          \* the copies committed so far, with what each was made of
    team_members     \* the Team documents' spec.members: team -> bot references

shareVars == <<shared_tasks, attachments, copy, copied>>

confVars == <<team_members>>

lifeVars == <<kinds, next_id, subtasks, lastOp, calls, shareVars, confVars>>

vars == <<streamVars, lifeVars>>

\* ------------------------------------------------------------------ values
NoResult == [isnull |-> TRUE, value |-> <<>>]

ValueResult(v) == [isnull |-> FALSE, value |-> v]

\* `content = ""; if subtask.result: content = subtask.result.get("value", "")`
ValueOf(result) == IF result.isnull THEN <<>> ELSE result.value

\* Python's s[o:] for o >= 0
Slice(s, o) == SubSeq(s, o + 1, Len(s))

\* The characters at positions a .. b-1 of the producer's output: the model's
\* characters are numbered by their position, so every character is distinct.
Chars(a, b) == [i \in 1..(b - a) |-> a + i]

ContentEv(o, c, cached) ==
    [kind |-> "content", offset |-> o, content |-> c, cached |-> cached,
     result |-> NoResult]

DoneEv(o, r) ==
    [kind |-> "done", offset |-> o, content |-> <<>>, cached |-> FALSE,
     result |-> r]

ErrorEv ==
    [kind |-> "error", offset |-> 0, content |-> <<>>, cached |-> FALSE,
     result |-> NoResult]

ChunkMsg(c) == [type |-> "chunk", data |-> c, result |-> NoResult]

DoneMsg(r) == [type |-> "STREAM_DONE", data |-> <<>>, result |-> r]

LegacyDoneMsg == [type |-> "__STREAM_DONE__", data |-> <<>>, result |-> NoResult]

NoCall == [offset |-> 0, out |-> <<>>, valid |-> FALSE]

\* position just past the last character the client received
ClientPos ==
    IF received = <<>> THEN 0
    ELSE received[Len(received)].offset + Len(received[Len(received)].content)

ContentOnly(evs) == SelectSeq(evs, LAMBDA e : e.kind = "content")

\* the client receives what the handler yields
Emit(evs) ==
    /\ out' = out \o evs
    /\ received' = IF disciplined THEN received \o ContentOnly(evs) ELSE received

\* ------------------------------------------------------------- the handler
\* a variant whose terminal event echoes the request offset
generate_completed_echo(off, sub) ==
    LET content == ValueOf(sub.result) IN
    (IF off < Len(content)
        THEN <<ContentEv(off, Slice(content, off), FALSE)>>
        ELSE <<>>)
    \o <<DoneEv(off, sub.result)>>

\* generate_completed: the reply for a subtask that is COMPLETED at call time
generate_completed(off, sub) ==
    LET content == ValueOf(sub.result) IN
    (IF off < Len(content)
        THEN <<ContentEv(off, Slice(content, off), FALSE)>>
        ELSE <<>>)
    \o <<DoneEv(Len(content), sub.result)>>

\* a variant of the COMPLETED branch that sends the terminal event alone
CompletedTail_marker_only(cur, sub) == <<DoneEv(cur, sub.result)>>

\* the COMPLETED branch shared by the re-checks of generate_resume:
\* remaining content from the cursor, then the terminal event
CompletedTail(cur, sub) ==
    LET final_content == ValueOf(sub.result) IN
    IF cur < Len(final_content)
        THEN <<ContentEv(cur, Slice(final_content, cur), FALSE),
               DoneEv(Len(final_content), sub.result)>>
        ELSE <<DoneEv(cur, sub.result)>>

\* a variant whose cleanup leaves the subscription open
Release_leak ==
    /\ pubsub' = pubsub
    /\ inbox' = inbox

\* the finally block: unsubscribe, close
Release ==
    /\ pubsub' = FALSE
    /\ inbox' = <<>>

ResumeCall(off) ==
    /\ pc \in {"idle", "closed"}
    /\ resumes < MaxResumes
    /\ resumes' = resumes + 1
    /\ offset' = off
    /\ current_offset' = off
    /\ subtask' = row
    /\ prev' = IF pc = "closed" /\ mode = "completed"
                 THEN [offset |-> offset, out |-> out, valid |-> TRUE]
                 ELSE NoCall
    /\ disciplined' = (disciplined /\ off = ClientPos)
    /\ IF row.status = "COMPLETED"
         THEN /\ mode' = "completed"
              /\ http' = "200"
              /\ out' = generate_completed(off, row)
              /\ pc' = "closed"
         ELSE IF row.status \notin {"RUNNING", "PENDING"}
         THEN /\ mode' = "rejected"
              /\ http' = "400"
              /\ out' = <<>>
              /\ pc' = "closed"
         ELSE /\ mode' = "resume"
              /\ http' = "200"
              /\ out' = <<>>
              /\ pc' = "read_cache"
    /\ received' = IF disciplined' THEN received \o ContentOnly(out') ELSE received
    /\ UNCHANGED <<row, cache, pubsub, inbox>>
    /\ exit' = ""
    /\ UNCHANGED completed_at
    /\ UNCHANGED lifeVars

ReadCache ==
    /\ pc = "read_cache"
    /\ LET cached_content ==
               IF cache # <<>> THEN cache ELSE ValueOf(subtask.result)
       IN IF cached_content # <<>> /\ current_offset < Len(cached_content)
            THEN /\ Emit(<<ContentEv(current_offset,
                                      Slice(cached_content, current_offset), TRUE)>>)
                 /\ current_offset' = Len(cached_content)
            ELSE /\ Emit(<<>>)
                 /\ UNCHANGED current_offset
    /\ pc' = "check"
    /\ UNCHANGED <<row, cache, offset, subtask, pubsub, inbox, http, mode,
                   resumes, disciplined, prev>>
    /\ UNCHANGED exit
    /\ UNCHANGED completed_at
    /\ UNCHANGED lifeVars

CheckStatus ==
    /\ pc = "check"
    /\ subtask' = row
    /\ IF row.status = "COMPLETED"
         THEN /\ Emit(CompletedTail(current_offset, row))
              /\ pc' = "closed"
         ELSE IF row.status = "FAILED"
         THEN /\ Emit(<<ErrorEv>>)
              /\ pc' = "closed"
         ELSE /\ Emit(<<>>)
              /\ pc' = "subscribe"
    /\ UNCHANGED <<row, cache, offset, current_offset, pubsub, inbox, http, mode,
                   resumes, disciplined, prev>>
    /\ exit' = IF row.status \in {"COMPLETED", "FAILED"} THEN "recheck" ELSE exit
    /\ UNCHANGED completed_at
    /\ UNCHANGED lifeVars

Subscribe(ok) ==
    /\ pc = "subscribe"
    /\ IF ok
         THEN /\ pubsub' = TRUE
              /\ inbox' = <<>>
              /\ pc' = "loop"
              /\ Emit(<<>>)
              /\ UNCHANGED subtask
         ELSE /\ subtask' = row
              /\ Emit(IF row.status = "COMPLETED"
                        THEN CompletedTail(current_offset, row)
                        ELSE <<ErrorEv>>)
              /\ pc' = "closed"
              /\ UNCHANGED <<pubsub, inbox>>
    /\ UNCHANGED <<row, cache, offset, current_offset, http, mode, resumes,
                   disciplined, prev>>
    /\ exit' = IF ok THEN exit ELSE "no_pubsub"
    /\ UNCHANGED completed_at
    /\ UNCHANGED lifeVars

LoopReceive ==
    /\ pc = "loop"
    /\ inbox # <<>>
    /\ LET message == Head(inbox) IN
       IF message.type = "STREAM_DONE"
         THEN /\ Emit(<<DoneEv(current_offset, message.result)>>)
              /\ pc' = "closed"
              /\ Release
              /\ UNCHANGED <<current_offset, subtask>>
         ELSE IF message.type = "__STREAM_DONE__"
         THEN /\ subtask' = row
              /\ Emit(<<DoneEv(current_offset, row.result)>>)
              /\ pc' = "closed"
              /\ Release
              /\ UNCHANGED current_offset
         ELSE /\ Emit(<<ContentEv(current_offset, message.data, FALSE)>>)
              /\ current_offset' = current_offset + Len(message.data)
              /\ inbox' = Tail(inbox)
              /\ UNCHANGED <<pc, pubsub, subtask>>
    /\ UNCHANGED <<row, cache, offset, http, mode, resumes, disciplined, prev>>
    /\ exit' = IF Head(inbox).type = "STREAM_DONE" THEN "done"
               ELSE IF Head(inbox).type = "__STREAM_DONE__" THEN "legacy"
               ELSE exit
    /\ UNCHANGED completed_at
    /\ UNCHANGED lifeVars

\* a variant of the loop without the periodic status check's exits
LoopStatusCheck_blind ==
    /\ pc = "loop"
    /\ subtask' = row
    /\ Emit(<<>>)
    /\ UNCHANGED <<pc, pubsub, inbox>>
    /\ UNCHANGED <<row, cache, offset, current_offset, http, mode, resumes,
                   disciplined, prev>>
    /\ UNCHANGED <<exit, completed_at>>
    /\ UNCHANGED lifeVars

LoopStatusCheck ==
    /\ pc = "loop"
    /\ subtask' = row
    /\ IF row.status = "COMPLETED"
         THEN /\ Emit(CompletedTail(current_offset, row))
              /\ pc' = "closed"
              /\ Release
         ELSE IF row.status \notin {"RUNNING", "PENDING"}
         THEN /\ Emit(<<ErrorEv>>)
              /\ pc' = "closed"
              /\ Release
         ELSE /\ Emit(<<>>)
              /\ UNCHANGED <<pc, pubsub, inbox>>
    /\ UNCHANGED <<row, cache, offset, current_offset, http, mode, resumes,
                   disciplined, prev>>
    /\ exit' = IF row.status \in {"RUNNING", "PENDING"} THEN exit ELSE "status"
    /\ UNCHANGED completed_at
    /\ UNCHANGED lifeVars

\* an exception raised inside the receive loop (channel read, db.refresh):
\* the finally block runs, then the outer handler yields one error event
LoopRaise ==
    /\ pc = "loop"
    /\ Emit(<<ErrorEv>>)
    /\ pc' = "closed"
    /\ Release
    /\ exit' = "exception"
    /\ UNCHANGED <<row, cache, offset, current_offset, subtask, http, mode,
                   resumes, disciplined, prev, completed_at>>
    /\ UNCHANGED lifeVars

\* the client goes away in the middle of a resumed stream
Disconnect ==
    /\ pc \in {"read_cache", "check", "subscribe", "loop"}
    /\ pc' = "closed"
    /\ Release
    /\ UNCHANGED <<row, cache, offset, current_offset, subtask, out, http, mode,
                   received, resumes, disciplined, prev>>
    /\ exit' = "disconnect"
    /\ UNCHANGED completed_at
    /\ UNCHANGED lifeVars

\* ------------------------------------------------------------ the producer
Publish(msg) == inbox' = IF pubsub THEN Append(inbox, msg) ELSE inbox

ProducerChunk(n) ==
    /\ row.status \in {"PENDING", "RUNNING"}
    /\ Len(cache) + n <= MaxLen
    /\ cache' = cache \o Chars(Len(cache), Len(cache) + n)
    /\ row' = [row EXCEPT !.status = "RUNNING"]
    /\ Publish(ChunkMsg(Chars(Len(cache), Len(cache) + n)))
    /\ UNCHANGED <<pc, offset, current_offset, subtask, pubsub, out, http, mode,
                   received, resumes, disciplined, prev>>
    /\ UNCHANGED exit
    /\ UNCHANGED completed_at
    /\ UNCHANGED lifeVars

ProducerSaveDb ==
    /\ row.status = "RUNNING"
    /\ ValueOf(row.result) # cache
    /\ row' = [row EXCEPT !.result = ValueResult(cache)]
    /\ UNCHANGED <<cache, pc, offset, current_offset, subtask, pubsub, inbox, out,
                   http, mode, received, resumes, disciplined, prev>>
    /\ UNCHANGED exit
    /\ UNCHANGED completed_at
    /\ UNCHANGED lifeVars

ProducerDone(legacy) ==
    /\ row.status \in {"PENDING", "RUNNING"}
    /\ row' = [row EXCEPT !.status = "COMPLETED", !.result = ValueResult(cache)]
    /\ Publish(IF legacy THEN LegacyDoneMsg ELSE DoneMsg(ValueResult(cache)))
    /\ UNCHANGED <<cache, pc, offset, current_offset, subtask, pubsub, out, http,
                   mode, received, resumes, disciplined, prev>>
    /\ UNCHANGED exit
    /\ completed_at' = pc
    /\ UNCHANGED lifeVars

ProducerFail ==
    /\ row.status \in {"PENDING", "RUNNING"}
    /\ row' = [row EXCEPT !.status = "FAILED", !.error_message = "error"]
    /\ UNCHANGED <<cache, pc, offset, current_offset, subtask, pubsub, inbox, out,
                   http, mode, received, resumes, disciplined, prev>>
    /\ UNCHANGED exit
    /\ UNCHANGED completed_at
    /\ UNCHANGED lifeVars

\* delete_task on the subtask's task: the row's status becomes DELETE
DeleteSubtask ==
    /\ row.status # "DELETE"
    /\ row' = [row EXCEPT !.status = "DELETE"]
    /\ UNCHANGED <<cache, pc, offset, current_offset, subtask, pubsub, inbox, out,
                   http, mode, received, resumes, disciplined, prev, exit,
                   completed_at>>
    /\ UNCHANGED lifeVars

\* an exception raised before the loop is entered (cache read, db.refresh,
\* subscribe): the outer handler yields one error event
SetupRaise ==
    /\ pc \in {"read_cache", "check", "subscribe"}
    /\ Emit(<<ErrorEv>>)
    /\ pc' = "closed"
    /\ exit' = "exception"
    /\ UNCHANGED <<row, cache, offset, current_offset, subtask, pubsub, inbox,
                   http, mode, resumes, disciplined, prev, completed_at>>
    /\ UNCHANGED lifeVars

\* the receive loop ends by a completion marker (by = "message") or by the
\* periodic status check (by = "status"), and then pubsub.unsubscribe() or
\* close() raises in the finally block: the exception reaches the outer
\* handler, which yields an error event. held: whether the subscription
\* survives the failed cleanup
LoopEndCleanupRaises(by, held) ==
    /\ pc = "loop"
    /\ IF by = "message"
         THEN /\ inbox # <<>>
              /\ Head(inbox).type \in {"STREAM_DONE", "__STREAM_DONE__"}
              /\ subtask' = IF Head(inbox).type = "STREAM_DONE" THEN subtask ELSE row
              /\ Emit(<<DoneEv(current_offset,
                               IF Head(inbox).type = "STREAM_DONE"
                                 THEN Head(inbox).result ELSE row.result),
                        ErrorEv>>)
         ELSE /\ row.status \notin {"RUNNING", "PENDING"}
              /\ subtask' = row
              /\ Emit((IF row.status = "COMPLETED"
                         THEN CompletedTail(current_offset, row)
                         ELSE <<ErrorEv>>) \o <<ErrorEv>>)
    /\ pc' = "closed"
    /\ pubsub' = held
    /\ inbox' = IF held THEN inbox ELSE <<>>
    /\ exit' = "cleanup"
    /\ UNCHANGED <<row, cache, offset, current_offset, http, mode, resumes,
                   disciplined, prev, completed_at>>
    /\ UNCHANGED lifeVars

\* ------------------------------------------------------ stream specification
StreamInit ==
    /\ row = [status |-> "PENDING", result |-> NoResult, error_message |-> ""]
    /\ cache = <<>>
    /\ pc = "idle"
    /\ offset = 0
    /\ current_offset = 0
    /\ subtask = [status |-> "PENDING", result |-> NoResult, error_message |-> ""]
    /\ pubsub = FALSE
    /\ inbox = <<>>
    /\ out = <<>>
    /\ http = ""
    /\ mode = ""
    /\ received = <<>>
    /\ resumes = 0
    /\ disciplined = TRUE
    /\ prev = NoCall
    /\ exit = ""
    /\ completed_at = ""

StreamNext ==
    \/ \E off \in 0..(MaxLen + 1) : ResumeCall(off)
    \/ ReadCache
    \/ CheckStatus
    \/ \E ok \in BOOLEAN : Subscribe(ok)
    \/ LoopReceive
    \/ LoopStatusCheck
    \/ LoopRaise
    \/ Disconnect
    \/ \E n \in 1..2 : ProducerChunk(n)
    \/ ProducerSaveDb
    \/ \E legacy \in BOOLEAN : ProducerDone(legacy)
    \/ ProducerFail


\* =================================================================== lifecycle
MaxGroups == 2       \* USER/ASSISTANT groups appended to the task

Users == {"alice", "bob"}

final_states == {"COMPLETED", "FAILED", "CANCELLED", "DELETE"}

non_final_states == {"PENDING", "RUNNING", "CANCELLING"}

TaskStatuses == final_states \cup non_final_states

\* Team documents: collaboration model and members (each member is one bot)
Teams == {"pipeline_team", "coordinate_team"}

collaborationModel(team) ==
    IF team = "pipeline_team" THEN "pipeline" ELSE "coordinate"

\* the members the teams are set up with
InitialMembers ==
    [team \in Teams |-> IF team = "pipeline_team" THEN <<"bot1", "bot2", "bot3">>
                        ELSE <<"bot1", "bot2">>]

members(team) == team_members[team]

\* the Bot documents of the kinds table: a member's botRef resolves when an
\* active Bot of that name exists; "ghost" names one that does not
BotExists(bot) == bot # "ghost"

\* team_kinds_service's lookup: the teams are alice's and shared with nobody
TeamVisible(team, user) == team \in Teams /\ user = "alice"

NullResult == [isnull |-> TRUE, value |-> ""]

TaskDoc(user, team) ==
    [kind |-> "Task", user_id |-> user, is_active |-> TRUE, team |-> team,
     title |-> "t0", prompt |-> "p0", status |-> "PENDING", progress |-> 0,
     result |-> "none", errorMessage |-> "", completedAt |-> "none"]

OtherDoc(kind, user) ==
    [kind |-> kind, user_id |-> user, is_active |-> (kind # "Placeholder"),
     team |-> "", title |-> "", prompt |-> "", status |-> "", progress |-> 0,
     result |-> "none", errorMessage |-> "", completedAt |-> "none"]

\* an active Task document with this id (Kind.kind == "Task", is_active == True)
ActiveTask(id) ==
    id \in DOMAIN kinds /\ kinds[id].kind = "Task" /\ kinds[id].is_active

NoIn == [status |-> "unset", fields |-> "none", partial |-> "none",
         signal |-> "", team |-> "", failed |-> {}]

\* a handled request: the operation, the id it names, its input (kept for the
\* requests that found their target), the target subtask's status before, and
\* what the handler returned
Op(op, id, in, pre_sub, ret) ==
    [op |-> op, id |-> id, in |-> in, pre_sub |-> pre_sub, ret |-> ret]

\* ----------------------------------------------------------- _create_subtasks
Row(user, task_id, team, role, bot_ids, message_id, parent_id, status, exec) ==
    [user_id |-> user, task_id |-> task_id, team |-> team, role |-> role,
     bot_ids |-> bot_ids, message_id |-> message_id, parent_id |-> parent_id,
     prompt |-> IF role = "USER" THEN "p0" ELSE "",
     status |-> status, progress |-> 0, result |-> NullResult,
     error_message |-> "", executor_name |-> exec,
     executor_deleted_at |-> FALSE]

\* ids of the rows of `rows` selected by Subtask.task_id and Subtask.user_id
ExistingIds(rows, task_id, user) ==
    {i \in DOMAIN rows : rows[i].task_id = task_id /\ rows[i].user_id = user}

\* order_by(Subtask.message_id.desc()): the ids from the highest message_id down
RECURSIVE OrderDesc(_, _)
OrderDesc(rows, ids) ==
    IF ids = {} THEN <<>>
    ELSE LET top == CHOOSE i \in ids :
                        \A j \in ids : rows[j].message_id <= rows[i].message_id
         IN <<rows[top]>> \o OrderDesc(rows, ids \ {top})

\* _get_pipeline_executor_info: executors of the ASSISTANT rows after the most
\* recent USER row, restored to their original order
RECURSIVE AssistantsBeforeUser(_)
AssistantsBeforeUser(existing) ==
    IF existing = <<>> \/ Head(existing).role = "USER" THEN <<>>
    ELSE <<Head(existing).executor_name>> \o AssistantsBeforeUser(Tail(existing))

Reverse(q) == [i \in 1..Len(q) |-> q[Len(q) + 1 - i]]

\* a variant that keeps the executors in the order of the query
get_pipeline_executor_info_latest_first(existing) == AssistantsBeforeUser(existing)

get_pipeline_executor_info(existing) == Reverse(AssistantsBeforeUser(existing))

\* what _create_subtasks raises for the team as it is configured, "ok" when
\* it raises nothing: no members; no member whose bot resolves; in pipeline
\* mode, a member whose bot does not resolve
create_subtasks_raises(team) ==
    IF members(team) = <<>> THEN "400 no members"
    ELSE IF SelectSeq(members(team), BotExists) = <<>> THEN "400 no valid bots"
    ELSE IF /\ collaborationModel(team) = "pipeline"
            /\ \E i \in DOMAIN members(team) : ~ BotExists(members(team)[i])
      THEN "500 bot not found"
    ELSE "ok"

\* a variant whose single ASSISTANT subtask always starts without an executor
create_subtasks_unbound(rows, task_id, team, user) ==
    LET existing == OrderDesc(rows, ExistingIds(rows, task_id, user))
        next_message_id == IF existing # <<>> THEN existing[1].message_id + 1 ELSE 1
        parent_id == IF existing # <<>> THEN existing[1].message_id ELSE 0
        bot_ids == SelectSeq(members(team), BotExists)
        user_subtask == Row(user, task_id, team, "USER", bot_ids,
                            next_message_id, parent_id, "COMPLETED", "")
        parent2 == IF parent_id = 0 THEN 1 ELSE parent_id
        next2 == next_message_id + 1
        executor_infos == get_pipeline_executor_info(existing)
    IN IF collaborationModel(team) = "pipeline"
         THEN <<user_subtask>> \o
              [i \in 1..Len(members(team)) |->
                  Row(user, task_id, team, "ASSISTANT", <<members(team)[i]>>,
                      next2 + (i - 1), parent2 + (i - 1), "PENDING",
                      IF Len(executor_infos) >= i THEN executor_infos[i] ELSE "")]
         ELSE <<user_subtask,
                Row(user, task_id, team, "ASSISTANT", bot_ids, next2, parent2,
                    "PENDING", "")>>

\* the rows _create_subtasks adds for one group
create_subtasks(rows, task_id, team, user) ==
    LET existing == OrderDesc(rows, ExistingIds(rows, task_id, user))
        next_message_id == IF existing # <<>> THEN existing[1].message_id + 1 ELSE 1
        parent_id == IF existing # <<>> THEN existing[1].message_id ELSE 0
        \* `if bot: bot_ids.append(bot.id)`
        bot_ids == SelectSeq(members(team), BotExists)
        user_subtask == Row(user, task_id, team, "USER", bot_ids,
                            next_message_id, parent_id, "COMPLETED", "")
        \* `if parent_id == 0: parent_id = 1`
        parent2 == IF parent_id = 0 THEN 1 ELSE parent_id
        next2 == next_message_id + 1
        executor_infos == get_pipeline_executor_info(existing)
    IN IF collaborationModel(team) = "pipeline"
         THEN <<user_subtask>> \o
              [i \in 1..Len(members(team)) |->
                  Row(user, task_id, team, "ASSISTANT", <<members(team)[i]>>,
                      next2 + (i - 1), parent2 + (i - 1), "PENDING",
                      IF Len(executor_infos) >= i THEN executor_infos[i] ELSE "")]
         ELSE <<user_subtask,
                Row(user, task_id, team, "ASSISTANT", bot_ids, next2, parent2,
                    "PENDING",
                    IF existing # <<>> THEN existing[1].executor_name ELSE "")>>

\* number of groups the subtasks table holds
Groups == Cardinality({i \in DOMAIN subtasks : subtasks[i].role = "USER"})

\* ------------------------------------------------------ create_task_or_append
MaxIds == 4          \* ids the kinds table's auto-increment hands out

\* a variant that turns away a RUNNING or deleted task only
StatusCheck_running_only(task_status) ==
    IF task_status = "RUNNING" THEN "400 still running"
    ELSE IF task_status = "DELETE" THEN "400 deleted"
    ELSE "ok"

\* the status checks on the existing task: what is raised, "ok" when none is
StatusCheck(task_status) ==
    IF task_status = "RUNNING" THEN "400 still running"
    ELSE IF task_status = "DELETE" THEN "400 deleted"
    ELSE IF task_status \notin {"COMPLETED", "FAILED", "CANCELLED"}
      THEN "400 in progress"
    ELSE "ok"

\* task_id = 0 stands for "no task_id given"
CreateTaskOrAppend(user, team, task_id, prompt) ==
    LET in == [NoIn EXCEPT !.team = team,
                           !.fields = IF prompt = "oversize" THEN prompt ELSE @]
        \* create_task_id inserts a Placeholder at the auto-increment id and
        \* validate_task_id deletes it again: the id is consumed
        tid == IF task_id = 0 THEN next_id ELSE task_id
        nid == IF task_id = 0 THEN next_id + 1 ELSE next_id
        valid == task_id = 0 \/ task_id \in DOMAIN kinds
        \* validate_task_id deletes a Placeholder it finds under the id
        kept == IF task_id \in DOMAIN kinds /\ kinds[task_id].kind = "Placeholder"
                  THEN [i \in DOMAIN kinds \ {task_id} |-> kinds[i]]
                  ELSE kinds
    IN
    /\ Groups < MaxGroups
    /\ nid <= MaxIds
    /\ IF ~ valid
         THEN /\ lastOp' = Op("create_or_append", task_id, in, "none", "400 invalid task_id")
              /\ UNCHANGED <<kinds, next_id, subtasks>>
       ELSE IF tid \in DOMAIN kept /\ kept[tid].kind = "Task" /\ kept[tid].is_active
         THEN \* append to the existing task
              IF StatusCheck(kept[tid].status) # "ok"
                THEN /\ lastOp' = Op("create_or_append", task_id, in, "none",
                                     StatusCheck(kept[tid].status))
                     /\ UNCHANGED <<kinds, next_id, subtasks>>
              ELSE IF ~ TeamVisible(kept[tid].team, user)
                THEN /\ lastOp' = Op("create_or_append", task_id, in, "none", "404 team")
                     /\ UNCHANGED <<kinds, next_id, subtasks>>
              ELSE IF create_subtasks_raises(kept[tid].team) # "ok"
                THEN \* raised before the commit: the session is dropped
                     /\ lastOp' = Op("create_or_append", task_id, in, "none",
                                     create_subtasks_raises(kept[tid].team))
                     /\ UNCHANGED <<kinds, next_id, subtasks>>
              ELSE /\ kinds' = [kept EXCEPT ![tid].status = "PENDING",
                                            ![tid].progress = 0]
                   /\ subtasks' = subtasks \o
                          create_subtasks(subtasks, tid, kept[tid].team, user)
                   /\ next_id' = nid
                   /\ lastOp' = Op("create_or_append", task_id, in, "none", "appended")
       ELSE IF ~ TeamVisible(team, user)
         THEN /\ kinds' = kept
              /\ next_id' = nid
              /\ lastOp' = Op("create_or_append", task_id, in, "none", "404 team")
              /\ UNCHANGED subtasks
       ELSE IF prompt = "oversize"
         THEN \* len(prompt.encode("utf-8")) > 60000, checked in this branch only
              /\ kinds' = kept
              /\ next_id' = nid
              /\ lastOp' = Op("create_or_append", task_id, in, "none", "400 prompt too long")
              /\ UNCHANGED subtasks
       ELSE IF tid \in DOMAIN kept
         THEN \* the new Task row collides with the row that holds the id
              /\ kinds' = kept
              /\ next_id' = nid
              /\ lastOp' = Op("create_or_append", task_id, in, "none", "500 duplicate id")
              /\ UNCHANGED subtasks
       ELSE IF create_subtasks_raises(team) # "ok"
         THEN /\ kinds' = kept
              /\ next_id' = nid
              /\ lastOp' = Op("create_or_append", task_id, in, "none",
                              create_subtasks_raises(team))
              /\ UNCHANGED subtasks
       ELSE \* new Workspace, new Task, first group
            /\ kinds' = [i \in DOMAIN kept \cup {tid, nid} |->
                            IF i = tid THEN TaskDoc(user, team)
                            ELSE IF i = nid THEN OtherDoc("Workspace", user)
                            ELSE kept[i]]
            /\ next_id' = nid + 1
            /\ subtasks' = subtasks \o create_subtasks(subtasks, tid, team, user)
            /\ lastOp' = Op("create_or_append", task_id, in, "none", "created")
    /\ UNCHANGED <<streamVars, calls, shareVars, confVars>>

\* ------------------------------------------------- chat stream: task creation
\* the USER and ASSISTANT rows the chat endpoint adds: one ASSISTANT row bound
\* to every resolved bot whatever the team's mode, no executor binding
chat_subtasks(rows, task_id, team, user) ==
    LET existing == OrderDesc(rows, ExistingIds(rows, task_id, user))
        next_message_id == IF existing # <<>> THEN existing[1].message_id + 1 ELSE 1
        parent_id == IF existing # <<>> THEN existing[1].message_id ELSE 0
        bot_ids == SelectSeq(members(team), BotExists)
    IN <<[Row(user, task_id, team, "USER", bot_ids, next_message_id, parent_id,
              "COMPLETED", "") EXCEPT !.progress = 100],
         Row(user, task_id, team, "ASSISTANT", bot_ids, next_message_id + 1,
             next_message_id, "PENDING", "")>>

\* _create_task_and_subtasks: the bots are resolved; with a task_id the Task is
\* looked up under the user and turned away only when RUNNING, and is not
\* written; without one a Workspace and a Task are created; the USER and
\* ASSISTANT rows are added; one commit. task_id = 0: no task_id given
CreateTaskAndSubtasks(user, team, task_id) ==
    LET in == [NoIn EXCEPT !.team = team]
        tid == IF task_id = 0 THEN next_id ELSE task_id
        nid == IF task_id = 0 THEN next_id + 1 ELSE next_id
    IN
    /\ Groups < MaxGroups
    /\ nid <= MaxIds
    /\ IF SelectSeq(members(team), BotExists) = <<>>
         THEN /\ lastOp' = Op("chat_stream", task_id, in, "none", "400 no valid bots")
              /\ UNCHANGED <<kinds, next_id, subtasks>>
       ELSE IF task_id # 0 /\ ~ (ActiveTask(task_id) /\ kinds[task_id].user_id = user)
         THEN /\ lastOp' = Op("chat_stream", task_id, in, "none", "404")
              /\ UNCHANGED <<kinds, next_id, subtasks>>
       ELSE IF task_id # 0 /\ kinds[task_id].status = "RUNNING"
         THEN /\ lastOp' = Op("chat_stream", task_id, in, "none", "400 still running")
              /\ UNCHANGED <<kinds, next_id, subtasks>>
       ELSE IF task_id # 0
         THEN /\ subtasks' = subtasks \o chat_subtasks(subtasks, tid, team, user)
              /\ lastOp' = Op("chat_stream", task_id, in, "none", "appended")
              /\ UNCHANGED <<kinds, next_id>>
       ELSE /\ kinds' = [i \in DOMAIN kinds \cup {tid, nid} |->
                            IF i = tid THEN TaskDoc(user, team)
                            ELSE IF i = nid THEN OtherDoc("Workspace", user)
                            ELSE kinds[i]]
            /\ next_id' = nid + 1
            /\ subtasks' = subtasks \o chat_subtasks(subtasks, tid, team, user)
            /\ lastOp' = Op("chat_stream", task_id, in, "none", "created")
    /\ UNCHANGED <<streamVars, calls, shareVars, confVars>>

\* ---------------------------------------------------------------- update_task
\* a variant without the CANCELLING branch
GuardedStatus_final_only(current_status, new_status) ==
    IF current_status \in final_states /\ new_status \in non_final_states
      THEN current_status
    ELSE new_status

\* a variant without the final-state branch
GuardedStatus_cancelling_only(current_status, new_status) ==
    IF current_status = "CANCELLING"
      THEN IF new_status \notin {"CANCELLED", "FAILED"}
             THEN current_status
             ELSE new_status
    ELSE new_status

\* the state-transition guard of update_task
GuardedStatus(current_status, new_status) ==
    IF current_status = "CANCELLING"
      THEN IF new_status \notin {"CANCELLED", "FAILED"}
             THEN current_status
             ELSE new_status
    ELSE IF current_status \in final_states /\ new_status \in non_final_states
      THEN current_status
    ELSE new_status

\* update_data applied to the Task document
ApplyUpdate(task, in) ==
    LET supplied == in.fields = "all" IN
    [task EXCEPT
        !.title = IF supplied THEN "t1" ELSE @,
        !.prompt = IF supplied THEN "p1" ELSE @,
        !.status = IF in.status # "unset" THEN GuardedStatus(@, in.status) ELSE @,
        !.progress = IF supplied THEN 50 ELSE @,
        !.result = IF supplied THEN "r1" ELSE @,
        !.errorMessage = IF supplied THEN "e1" ELSE @,
        !.completedAt = IF in.status \in {"COMPLETED", "FAILED", "CANCELLED"}
                          THEN "stamped" ELSE @]

UpdateTask(user, task_id, in) ==
    /\ IF ~ (ActiveTask(task_id) /\ kinds[task_id].user_id = user)
         THEN /\ lastOp' = Op("update", task_id, NoIn, "none", "404")
              /\ UNCHANGED kinds
       ELSE IF in.fields = "oversize"
         THEN /\ lastOp' = Op("update", task_id, in, "none", "400 prompt too long")
              /\ UNCHANGED kinds
       ELSE /\ kinds' = [kinds EXCEPT ![task_id] = ApplyUpdate(@, in)]
            /\ lastOp' = Op("update", task_id, in, "none", "ok")
    /\ UNCHANGED <<next_id, subtasks>>
    /\ UNCHANGED <<streamVars, calls, shareVars, confVars>>

\* ---------------------------------------------------------------- delete_task
\* (executor_namespace, executor_name) of the task's subtasks whose executor
\* is not yet torn down
unique_executor_keys(task_id) ==
    {subtasks[i].executor_name : i \in {j \in DOMAIN subtasks :
        /\ subtasks[j].task_id = task_id
        /\ subtasks[j].executor_name # ""
        /\ ~ subtasks[j].executor_deleted_at}}

\* a variant in which a failed teardown aborts the delete
DeleteTask_abort(user, task_id, failed) ==
    /\ failed \subseteq unique_executor_keys(task_id)
    /\ IF ~ (ActiveTask(task_id) /\ kinds[task_id].user_id = user)
         THEN /\ lastOp' = Op("delete", task_id, NoIn, "none", "404")
              /\ UNCHANGED <<kinds, subtasks>>
       ELSE IF failed # {}
         THEN /\ lastOp' = Op("delete", task_id, [NoIn EXCEPT !.failed = failed],
                              "none", "500")
              /\ UNCHANGED <<kinds, subtasks>>
       ELSE /\ subtasks' = [i \in DOMAIN subtasks |->
                               IF subtasks[i].task_id = task_id
                                 THEN [subtasks[i] EXCEPT
                                          !.executor_deleted_at = TRUE,
                                          !.status = "DELETE"]
                                 ELSE subtasks[i]]
            /\ kinds' = [kinds EXCEPT ![task_id].status = "DELETE",
                                      ![task_id].is_active = FALSE]
            /\ lastOp' = Op("delete", task_id, NoIn, "none", "ok")
    /\ UNCHANGED next_id
    /\ UNCHANGED <<streamVars, calls, shareVars, confVars>>

\* failed: the executors whose delete_executor_task_sync raises
DeleteTask(user, task_id, failed) ==
    /\ failed \subseteq unique_executor_keys(task_id)
    /\ IF ~ (ActiveTask(task_id) /\ kinds[task_id].user_id = user)
         THEN /\ lastOp' = Op("delete", task_id, NoIn, "none", "404")
              /\ UNCHANGED <<kinds, subtasks>>
       ELSE /\ subtasks' = [i \in DOMAIN subtasks |->
                               IF subtasks[i].task_id = task_id
                                 THEN [subtasks[i] EXCEPT
                                          !.executor_deleted_at = TRUE,
                                          !.status = "DELETE"]
                                 ELSE subtasks[i]]
            /\ kinds' = [kinds EXCEPT ![task_id].status = "DELETE",
                                      ![task_id].is_active = FALSE]
            /\ lastOp' = Op("delete", task_id, [NoIn EXCEPT !.failed = failed],
                            "none", "ok")
    /\ UNCHANGED next_id
    /\ UNCHANGED <<streamVars, calls, shareVars, confVars>>

\* ---------------------------------------------------------------- cancel_chat
\* a variant that marks the cancelled Subtask CANCELLED
CancelSubtask_cancelled(sub, partial) ==
    [sub EXCEPT !.status = "CANCELLED",
                !.progress = 100,
                !.error_message = "",
                !.result = ValueResult(IF partial = "none" THEN "" ELSE partial)]

\* the finalization cancel_chat commits: the Subtask row and its parent Task
CancelSubtask(sub, partial) ==
    [sub EXCEPT !.status = "COMPLETED",
                !.progress = 100,
                !.error_message = "",
                !.result = ValueResult(IF partial = "none" THEN "" ELSE partial)]

CancelTask(task) ==
    [task EXCEPT !.status = "COMPLETED",
                 !.errorMessage = "",
                 !.completedAt = "stamped"]

\* session_manager.cancel_stream: the flag is broadcast through the cache,
\* fire and forget; it reaches the streaming loop or is lost
cancel_stream(delivered) == IF delivered THEN "delivered" ELSE "lost"

\* a variant that leaves the finalization to the streaming loop: the rows are
\* written only when the signal is delivered
CancelChat_on_delivery(user, subtask_id, partial, delivered) ==
    LET in == [NoIn EXCEPT !.partial = partial,
                           !.signal = cancel_stream(delivered)]
        found == subtask_id \in DOMAIN subtasks
                     /\ subtasks[subtask_id].user_id = user
        pre_sub == IF subtask_id \in DOMAIN subtasks
                     THEN subtasks[subtask_id].status ELSE "none"
        task_id == IF subtask_id \in DOMAIN subtasks
                     THEN subtasks[subtask_id].task_id ELSE 0
    IN
    /\ IF ~ found
         THEN /\ lastOp' = Op("cancel", subtask_id, NoIn, "none", "404")
              /\ UNCHANGED <<kinds, subtasks>>
       ELSE IF subtasks[subtask_id].status \notin {"PENDING", "RUNNING"}
         THEN /\ lastOp' = Op("cancel", subtask_id, NoIn, pre_sub, "success: false")
              /\ UNCHANGED <<kinds, subtasks>>
       ELSE /\ subtasks' = IF delivered
                             THEN [subtasks EXCEPT ![subtask_id] = CancelSubtask(@, partial)]
                             ELSE subtasks
            /\ kinds' = IF delivered /\ ActiveTask(task_id)
                          THEN [kinds EXCEPT ![task_id] = CancelTask(@)]
                          ELSE kinds
            /\ lastOp' = Op("cancel", subtask_id, in, pre_sub, "success: true")
    /\ UNCHANGED next_id
    /\ UNCHANGED <<streamVars, calls, shareVars, confVars>>

CancelChat(user, subtask_id, partial, delivered) ==
    LET in == [NoIn EXCEPT !.partial = partial,
                           !.signal = cancel_stream(delivered)]
        found == subtask_id \in DOMAIN subtasks
                     /\ subtasks[subtask_id].user_id = user
        pre_sub == IF subtask_id \in DOMAIN subtasks
                     THEN subtasks[subtask_id].status ELSE "none"
        task_id == IF subtask_id \in DOMAIN subtasks
                     THEN subtasks[subtask_id].task_id ELSE 0
    IN
    /\ IF ~ found
         THEN /\ lastOp' = Op("cancel", subtask_id, NoIn, "none", "404")
              /\ UNCHANGED <<kinds, subtasks>>
       ELSE IF subtasks[subtask_id].status \notin {"PENDING", "RUNNING"}
         THEN /\ lastOp' = Op("cancel", subtask_id, NoIn, pre_sub, "success: false")
              /\ UNCHANGED <<kinds, subtasks>>
       ELSE /\ subtasks' = [subtasks EXCEPT ![subtask_id] = CancelSubtask(@, partial)]
            /\ kinds' = IF ActiveTask(task_id)
                          THEN [kinds EXCEPT ![task_id] = CancelTask(@)]
                          ELSE kinds
            /\ lastOp' = Op("cancel", subtask_id, in, pre_sub, "success: true")
    /\ UNCHANGED next_id
    /\ UNCHANGED <<streamVars, calls, shareVars, confVars>>

\* the name of the executor started for a subtask that has none
ExecutorName(subtask_id) == "executor-" \o ToString(subtask_id)

\* the executor picks a PENDING ASSISTANT subtask up
ExecutorStart(subtask_id) ==
    /\ subtask_id \in DOMAIN subtasks
    /\ subtasks[subtask_id].role = "ASSISTANT"
    /\ subtasks[subtask_id].status = "PENDING"
    /\ subtasks' = [subtasks EXCEPT
                       ![subtask_id].status = "RUNNING",
                       ![subtask_id].executor_name =
                           IF @ = "" THEN ExecutorName(subtask_id) ELSE @]
    /\ lastOp' = Op("executor_start", subtask_id, NoIn, "PENDING", "ok")
    /\ UNCHANGED <<kinds, next_id>>
    /\ UNCHANGED <<streamVars, calls, shareVars, confVars>>

\* --------------------------------------------- requests, statement by statement
\* create_task_id, validate_task_id and create_task_or_append as the sequence
\* of statements each runs against the database, so that requests interleave
MaxCalls == 2        \* requests made

Calls == 1..MaxCalls

NoRequest ==
    [op |-> "", user |-> "", pc |-> "idle", task_id |-> 0, given |-> FALSE,
     branch |-> "", staged |-> "none", rows |-> <<>>, ret |-> ""]

\* SELECT id FROM kinds WHERE user_id = :user_id AND kind = 'Placeholder'
\* AND is_active = false
Placeholders(user) ==
    {i \in DOMAIN kinds : /\ kinds[i].kind = "Placeholder"
                          /\ kinds[i].user_id = user
                          /\ ~ kinds[i].is_active}

Returned(call, ret) == [call EXCEPT !.pc = "done", !.ret = ret]

\* create_task_id has returned id: the request is over, or goes on to validate
Allocated(call, id) ==
    IF call.op = "allocate"
      THEN [call EXCEPT !.pc = "done", !.task_id = id, !.ret = "allocated"]
      ELSE [call EXCEPT !.pc = "validate", !.task_id = id]

\* validate_task_id has returned
Validated(call, valid) ==
    IF call.op = "validate"
      THEN Returned(call, IF valid THEN "valid" ELSE "invalid")
    ELSE IF valid
      THEN [call EXCEPT !.pc = "lookup"]
    ELSE Returned(call, "400 invalid task_id")

\* a request arrives: allocate(), validate(task_id), or create_or_append with
\* or without a task_id
Begin(c, op, user, task_id) ==
    /\ calls[c].pc = "idle"
    /\ op = "allocate" => task_id = 0
    /\ op = "validate" => task_id # 0
    /\ calls' = [calls EXCEPT ![c] =
                    [NoRequest EXCEPT !.op = op,
                                      !.user = user,
                                      !.task_id = task_id,
                                      !.given = (task_id # 0),
                                      !.pc = IF task_id = 0 THEN "select"
                                                            ELSE "validate"]]
    /\ UNCHANGED <<kinds, next_id, subtasks, lastOp>>
    /\ UNCHANGED <<streamVars, shareVars, confVars>>

\* a variant whose lookup is not restricted to the user
AllocSelect_any_user(c) ==
    /\ calls[c].pc = "select"
    /\ LET any == {i \in DOMAIN kinds : kinds[i].kind = "Placeholder"} IN
       IF any # {}
         THEN \E existing_placeholder \in any :
                 calls' = [calls EXCEPT ![c] = Allocated(@, existing_placeholder)]
         ELSE calls' = [calls EXCEPT ![c].pc = "insert"]
    /\ UNCHANGED <<kinds, next_id, subtasks, lastOp>>
    /\ UNCHANGED <<streamVars, shareVars, confVars>>

\* a variant that never reuses a Placeholder
AllocSelect_always_insert(c) ==
    /\ calls[c].pc = "select"
    /\ calls' = [calls EXCEPT ![c].pc = "insert"]
    /\ UNCHANGED <<kinds, next_id, subtasks, lastOp>>
    /\ UNCHANGED <<streamVars, shareVars, confVars>>

\* create_task_id: look for a Placeholder of the user (LIMIT 1, no order)
AllocSelect(c) ==
    /\ calls[c].pc = "select"
    /\ IF Placeholders(calls[c].user) # {}
         THEN \E existing_placeholder \in Placeholders(calls[c].user) :
                 calls' = [calls EXCEPT ![c] = Allocated(@, existing_placeholder)]
         ELSE calls' = [calls EXCEPT ![c].pc = "insert"]
    /\ UNCHANGED <<kinds, next_id, subtasks, lastOp>>
    /\ UNCHANGED <<streamVars, shareVars, confVars>>

\* create_task_id: insert the Placeholder, the id comes from the auto-increment
AllocInsert(c) ==
    /\ calls[c].pc = "insert"
    /\ kinds' = [i \in DOMAIN kinds \cup {next_id} |->
                    IF i = next_id THEN OtherDoc("Placeholder", calls[c].user)
                    ELSE kinds[i]]
    /\ next_id' = next_id + 1
    /\ calls' = [calls EXCEPT ![c] = Allocated(@, next_id)]
    /\ UNCHANGED <<subtasks, lastOp>>
    /\ UNCHANGED <<streamVars, shareVars, confVars>>

\* validate_task_id: SELECT kind FROM kinds WHERE id = :task_id
ValidateSelect(c) ==
    /\ calls[c].pc = "validate"
    /\ LET task_id == calls[c].task_id IN
       calls' = [calls EXCEPT ![c] =
                    IF task_id \notin DOMAIN kinds THEN Validated(@, FALSE)
                    ELSE IF kinds[task_id].kind = "Placeholder"
                      THEN [@ EXCEPT !.pc = "validate_delete"]
                    ELSE Validated(@, TRUE)]
    /\ UNCHANGED <<kinds, next_id, subtasks, lastOp>>
    /\ UNCHANGED <<streamVars, shareVars, confVars>>

\* a variant that leaves the Placeholder in place
ValidateDelete_keep(c) ==
    /\ calls[c].pc = "validate_delete"
    /\ calls' = [calls EXCEPT ![c] = Validated(@, TRUE)]
    /\ UNCHANGED <<kinds, next_id, subtasks, lastOp>>
    /\ UNCHANGED <<streamVars, shareVars, confVars>>

\* validate_task_id: DELETE FROM kinds WHERE id = :id, commit, return True
ValidateDelete(c) ==
    /\ calls[c].pc = "validate_delete"
    /\ kinds' = [i \in DOMAIN kinds \ {calls[c].task_id} |-> kinds[i]]
    /\ calls' = [calls EXCEPT ![c] = Validated(@, TRUE)]
    /\ UNCHANGED <<next_id, subtasks, lastOp>>
    /\ UNCHANGED <<streamVars, shareVars, confVars>>

\* create_task_or_append: the existing_task query (no user filter) and the
\* branch it selects; the Task document is staged in the session (the prompt
\* of these requests is within the limit)
CreateLookup(c) ==
    /\ calls[c].pc = "lookup"
    /\ LET task_id == calls[c].task_id
           user == calls[c].user
           team == "coordinate_team"
       IN calls' = [calls EXCEPT ![c] =
              IF ActiveTask(task_id)
                THEN IF StatusCheck(kinds[task_id].status) # "ok"
                       THEN Returned(@, StatusCheck(kinds[task_id].status))
                     ELSE IF ~ TeamVisible(kinds[task_id].team, user)
                       THEN Returned(@, "404 team")
                     ELSE [@ EXCEPT !.pc = "build",
                                    !.branch = "append",
                                    !.staged = [kinds[task_id] EXCEPT
                                                   !.status = "PENDING",
                                                   !.progress = 0]]
              ELSE IF ~ TeamVisible(team, user)
                THEN Returned(@, "404 team")
              ELSE [@ EXCEPT !.pc = "build",
                             !.branch = "new",
                             !.staged = TaskDoc(user, team)]]
    /\ UNCHANGED <<kinds, next_id, subtasks, lastOp>>
    /\ UNCHANGED <<streamVars, shareVars, confVars>>

\* a variant that commits the staged Task document before the subtasks are built
CreateBuild_eager(c, no_bots) ==
    /\ calls[c].pc = "build"
    /\ kinds' = [i \in DOMAIN kinds \cup {calls[c].task_id} |->
                    IF i = calls[c].task_id THEN calls[c].staged ELSE kinds[i]]
    /\ calls' = [calls EXCEPT ![c] =
                    IF no_bots THEN Returned(@, "400 no valid bots")
                    ELSE [@ EXCEPT !.pc = "commit",
                                   !.rows = create_subtasks(subtasks,
                                                            calls[c].task_id,
                                                            calls[c].staged.team,
                                                            calls[c].user)]]
    /\ UNCHANGED <<next_id, subtasks, lastOp>>
    /\ UNCHANGED <<streamVars, shareVars, confVars>>

\* _create_subtasks: the bots are resolved (no_bots: none is found, 400), the
\* existing subtasks are read and the rows of the group are added to the session
CreateBuild(c, no_bots) ==
    /\ calls[c].pc = "build"
    /\ calls' = [calls EXCEPT ![c] =
                    IF no_bots THEN Returned(@, "400 no valid bots")
                    ELSE [@ EXCEPT !.pc = "commit",
                                   !.rows = create_subtasks(subtasks,
                                                            calls[c].task_id,
                                                            calls[c].staged.team,
                                                            calls[c].user)]]
    /\ UNCHANGED <<kinds, next_id, subtasks, lastOp>>
    /\ UNCHANGED <<streamVars, shareVars, confVars>>

\* db.commit(): everything the session holds is written, or nothing is
CreateCommit(c) ==
    /\ calls[c].pc = "commit"
    /\ LET task_id == calls[c].task_id IN
       IF calls[c].branch = "new" /\ task_id \in DOMAIN kinds
         THEN \* the id is taken: the INSERT of the Task row fails
              /\ calls' = [calls EXCEPT ![c] = Returned(@, "500 duplicate id")]
              /\ UNCHANGED <<kinds, next_id, subtasks>>
       ELSE IF calls[c].branch = "append" /\ task_id \notin DOMAIN kinds
         THEN \* the row is gone: the UPDATE of the Task row matches nothing
              /\ calls' = [calls EXCEPT ![c] = Returned(@, "500 stale row")]
              /\ UNCHANGED <<kinds, next_id, subtasks>>
       ELSE IF calls[c].branch = "append"
         THEN /\ kinds' = [kinds EXCEPT ![task_id] =
                              [calls[c].staged EXCEPT
                                  !.is_active = kinds[task_id].is_active]]
              /\ subtasks' = subtasks \o calls[c].rows
              /\ calls' = [calls EXCEPT ![c] = Returned(@, "appended")]
              /\ UNCHANGED next_id
       ELSE /\ kinds' = [i \in DOMAIN kinds \cup {task_id, next_id} |->
                            IF i = task_id THEN calls[c].staged
                            ELSE IF i = next_id
                              THEN OtherDoc("Workspace", calls[c].user)
                            ELSE kinds[i]]
              /\ next_id' = next_id + 1
              /\ subtasks' = subtasks \o calls[c].rows
              /\ calls' = [calls EXCEPT ![c] = Returned(@, "created")]
    /\ UNCHANGED lastOp
    /\ UNCHANGED <<streamVars, shareVars, confVars>>

\* ------------------------------------------------------------- task sharing
\* join_shared_task and _copy_task_with_subtasks, statement by statement: what
\* the session adds is flushed, and reaches the tables at its commit
MaxAttachments == 1  \* files attached to the original's subtasks

\* the teams a user owns (Kind.kind == "Team", Kind.user_id == user)
OwnTeams(user) == IF user = "alice" THEN Teams ELSE {"bob_team"}

NoCopy ==
    [pc |-> "idle", user |-> "", owner |-> "", original |-> 0, team |-> "",
     doc |-> "none", existing |-> 0, workspace |-> 0, staged_ws |-> FALSE,
     task_id |-> 0, source |-> <<>>, rows |-> <<>>, atts |-> <<>>,
     base |-> <<0, 0, 0>>, flushed |-> 0, ret |-> ""]

\* the request is over: the session is dropped with whatever it had flushed
\* (flushed: how many Subtasks that was)
Ended(ret) ==
    [NoCopy EXCEPT !.pc = "done", !.ret = ret, !.user = copy.user,
                   !.owner = copy.owner,
                   !.original = copy.original, !.base = copy.base,
                   !.flushed = Len(copy.rows)]

\* the rows a user holds: kinds documents, subtasks, attachments
Holdings(user) ==
    <<Cardinality({i \in DOMAIN kinds : kinds[i].user_id = user}),
      Cardinality({i \in DOMAIN subtasks : subtasks[i].user_id = user}),
      Cardinality({i \in DOMAIN attachments : attachments[i].user_id = user})>>

\* the first relation of (user, original task), active or not; 0 when none
ExistingShare(user, original) ==
    LET found == {i \in DOMAIN shared_tasks :
                     /\ shared_tasks[i].user_id = user
                     /\ shared_tasks[i].original_task_id = original}
    IN IF found = {} THEN 0 ELSE CHOOSE i \in found : \A j \in found : i <= j

\* the copied task of the relation still is an active Task of the user
CopyAlive(user, i) ==
    /\ ActiveTask(shared_tasks[i].copied_task_id)
    /\ kinds[shared_tasks[i].copied_task_id].user_id = user

\* `if existing_share and existing_share.is_active:` ... `if copied_task_check:`
AlreadyCopied(user, existing_share) ==
    /\ existing_share # 0
    /\ shared_tasks[existing_share].is_active
    /\ CopyAlive(user, existing_share)

\* join_shared_task up to the call of _copy_task_with_subtasks; the token
\* decrypts to (owner, task_id), owner "" standing for a token that does not.
\* decode_share_token is called with the session, and then returns nothing
\* unless task_id is an active Task (the users of the model are active)
JoinBegin(user, owner, task_id) ==
    LET existing_share == ExistingShare(user, task_id) IN
    /\ copy.pc \in {"idle", "done"}
    /\ copy' =
          LET call == [NoCopy EXCEPT !.user = user, !.owner = owner,
                                     !.original = task_id,
                                     !.base = Holdings(user)]
          IN IF owner = "" \/ ~ ActiveTask(task_id)
               THEN [call EXCEPT !.pc = "done", !.ret = "400 invalid token"]
             ELSE IF owner = user
               THEN [call EXCEPT !.pc = "done", !.ret = "400 own task"]
             ELSE IF ~ (ActiveTask(task_id) /\ kinds[task_id].user_id = owner)
               THEN [call EXCEPT !.pc = "done", !.ret = "404"]
             ELSE IF AlreadyCopied(user, existing_share)
               THEN [call EXCEPT !.pc = "done", !.ret = "400 already copied"]
             ELSE [call EXCEPT !.pc = "resolve",
                               !.doc = kinds[task_id],
                               !.existing = existing_share]
    /\ UNCHANGED <<kinds, next_id, subtasks, lastOp, calls>>
    /\ UNCHANGED <<shared_tasks, attachments, copied>>
    /\ UNCHANGED <<streamVars, confVars>>

\* the user's active Workspace documents; the repository asked for is the one
\* every workspace of the model is bound to
Workspaces(user) ==
    {i \in DOMAIN kinds : /\ kinds[i].kind = "Workspace"
                          /\ kinds[i].user_id = user
                          /\ kinds[i].is_active}

\* ids of the original's subtasks with status != "DELETE", order_by message_id
RECURSIVE OrderAsc(_)
OrderAsc(ids) ==
    IF ids = {} THEN <<>>
    ELSE LET low == CHOOSE i \in ids :
                        \A j \in ids :
                            \/ subtasks[i].message_id < subtasks[j].message_id
                            \/ (subtasks[i].message_id = subtasks[j].message_id /\ i <= j)
         IN <<low>> \o OrderAsc(ids \ {low})

original_subtasks(task_id) ==
    LET ids == OrderAsc({i \in DOMAIN subtasks :
                            /\ subtasks[i].task_id = task_id
                            /\ subtasks[i].status # "DELETE"})
    IN [k \in 1..Len(ids) |-> [id |-> ids[k], row |-> subtasks[ids[k]]]]

\* _copy_task_with_subtasks up to the query of the original's subtasks: team,
\* workspace (found, or provisioned and flushed), the new Task flushed. The
\* tasks of the model carry the default taskType "chat", for which the
\* workspace is optional. team: new_team_id; ws: the repository fields the
\* request carries; provision_fails: creating the workspace raises.
CopyResolve(team, ws, provision_fails) ==
    LET user == copy.user
        found == Workspaces(user)
        provision == ws = "repo_fields" /\ found = {}
        new_workspace == IF ws = "none" THEN 0
                         ELSE IF found # {} THEN CHOOSE i \in found : TRUE
                         ELSE IF provision THEN next_id
                         ELSE 0
        new_task == IF provision THEN next_id + 1 ELSE next_id
    IN
    /\ copy.pc = "resolve"
    /\ provision_fails => provision
    /\ new_task <= MaxIds
    /\ IF team \notin OwnTeams(user)
         THEN /\ copy' = Ended("400 team")
              /\ UNCHANGED next_id
       ELSE IF provision /\ provision_fails
         THEN /\ copy' = Ended("400 workspace")
              /\ UNCHANGED next_id
       ELSE IF ws # "none" /\ new_workspace = 0
         THEN /\ copy' = Ended("400 workspace")
              /\ UNCHANGED next_id
       ELSE LET source == original_subtasks(copy.original) IN
            /\ copy' = [copy EXCEPT
                           !.pc = IF source = <<>> THEN "commit" ELSE "subtasks",
                           !.workspace = new_workspace,
                           !.staged_ws = provision,
                           !.task_id = new_task,
                           !.team = team,
                           !.doc = [copy.doc EXCEPT !.user_id = user,
                                                    !.team = team,
                                                    !.is_active = TRUE],
                           !.source = source]
            \* the flushed INSERTs have taken their auto-increment ids
            /\ next_id' = new_task + 1
    /\ UNCHANGED <<kinds, subtasks, lastOp, calls>>
    /\ UNCHANGED <<shared_tasks, attachments, copied>>
    /\ UNCHANGED <<streamVars, confVars>>

\* the attachments of a subtask
AttachmentsOf(subtask_id) ==
    SelectSeq(attachments, LAMBDA a : a.subtask_id = subtask_id)

\* a variant that carries the original subtask's status over
CopyRow_keep_status(original_subtask, user, task_id, team) ==
    [original_subtask EXCEPT !.user_id = user,
                             !.task_id = task_id,
                             !.team = team,
                             !.executor_name = "",
                             !.executor_deleted_at = FALSE]

\* the new Subtask built from an original one
CopyRow(original_subtask, user, task_id, team) ==
    [original_subtask EXCEPT !.user_id = user,
                             !.task_id = task_id,
                             !.team = team,
                             !.executor_name = "",
                             !.executor_deleted_at = FALSE,
                             !.status = "COMPLETED",
                             !.progress = 100]

\* a variant that commits each subtask as soon as it is copied
CopySubtask_eager(failure) ==
    LET k == Len(copy.rows) + 1
        original_subtask == copy.source[k]
        new_subtask == CopyRow(original_subtask.row, copy.user, copy.task_id,
                               copy.team)
    IN
    /\ copy.pc = "subtasks"
    /\ failure = "attachment" => AttachmentsOf(original_subtask.id) # <<>>
    /\ IF failure # "none"
         THEN /\ copy' = Ended("500 " \o failure)
              /\ UNCHANGED subtasks
         ELSE /\ copy' = [copy EXCEPT
                             !.pc = IF k = Len(copy.source) THEN "commit" ELSE @,
                             !.rows = Append(@, new_subtask)]
              /\ subtasks' = Append(subtasks, new_subtask)
    /\ UNCHANGED <<kinds, next_id, lastOp, calls>>
    /\ UNCHANGED <<shared_tasks, attachments, copied>>
    /\ UNCHANGED <<streamVars, confVars>>

\* one round of the loop over the original's subtasks: the new Subtask is
\* flushed, the copies of its attachments are added. failure: what raises in
\* this round, if anything
CopySubtask(failure) ==
    LET k == Len(copy.rows) + 1
        original_subtask == copy.source[k]
        original_attachments == AttachmentsOf(original_subtask.id)
    IN
    /\ copy.pc = "subtasks"
    /\ failure = "attachment" => original_attachments # <<>>
    /\ copy' =
          IF failure # "none"
            THEN Ended("500 " \o failure)
            ELSE [copy EXCEPT
                     !.pc = IF k = Len(copy.source) THEN "commit" ELSE @,
                     !.rows = Append(@, CopyRow(original_subtask.row, copy.user,
                                                copy.task_id, copy.team)),
                     !.atts = @ \o [i \in 1..Len(original_attachments) |->
                                      [original_attachments[i] EXCEPT
                                          !.subtask_id = k,
                                          !.user_id = copy.user]]]
    /\ UNCHANGED <<kinds, next_id, subtasks, lastOp, calls>>
    /\ UNCHANGED <<shared_tasks, attachments, copied>>
    /\ UNCHANGED <<streamVars, confVars>>

\* db.commit() of _copy_task_with_subtasks: the workspace it provisioned, the
\* new Task, its Subtasks and their attachments reach the tables together
CopyCommit(fails) ==
    /\ copy.pc = "commit"
    /\ IF fails
         THEN /\ copy' = Ended("500 commit")
              /\ UNCHANGED <<kinds, subtasks, attachments, copied>>
         ELSE /\ kinds' = [i \in DOMAIN kinds \cup {copy.task_id}
                                  \cup (IF copy.staged_ws THEN {copy.workspace} ELSE {}) |->
                              IF i = copy.task_id THEN copy.doc
                              ELSE IF copy.staged_ws /\ i = copy.workspace
                                THEN OtherDoc("Workspace", copy.user)
                              ELSE kinds[i]]
              /\ subtasks' = subtasks \o copy.rows
              /\ attachments' = attachments \o
                     [i \in 1..Len(copy.atts) |->
                         [copy.atts[i] EXCEPT !.subtask_id = Len(subtasks) + @]]
              /\ copied' = copied \cup
                     {[user |-> copy.user, original |-> copy.original,
                       task_id |-> copy.task_id, status |-> copy.doc.status,
                       subtasks |-> Len(copy.source), attachments |-> Len(copy.atts)]}
              /\ copy' = [copy EXCEPT !.pc = "relate", !.rows = <<>>,
                                      !.atts = <<>>, !.source = <<>>,
                                      !.doc = "none", !.staged_ws = FALSE,
                                      !.workspace = 0, !.team = ""]
    /\ UNCHANGED <<next_id, lastOp, calls, shared_tasks>>
    /\ UNCHANGED <<streamVars, confVars>>

SharedTask(user, original, copied_task_id) ==
    [user_id |-> user, original_task_id |-> original,
     copied_task_id |-> copied_task_id, is_active |-> TRUE]

\* a variant that records every copy in a relation of its own
JoinRelate_insert(fails) ==
    /\ copy.pc = "relate"
    /\ IF fails
         THEN /\ copy' = Ended("500 relation")
              /\ UNCHANGED shared_tasks
         ELSE /\ shared_tasks' = Append(shared_tasks,
                     SharedTask(copy.user, copy.original, copy.task_id))
              /\ copy' = Ended("copied")
    /\ UNCHANGED <<kinds, next_id, subtasks, lastOp, calls>>
    /\ UNCHANGED <<attachments, copied>>
    /\ UNCHANGED <<streamVars, confVars>>

\* join_shared_task after the copy: the relation found at the start is updated
\* in place, or a new one is added; second commit. fails: this commit raises
JoinRelate(fails) ==
    /\ copy.pc = "relate"
    /\ IF fails
         THEN /\ copy' = Ended("500 relation")
              /\ UNCHANGED shared_tasks
         ELSE /\ shared_tasks' =
                    IF copy.existing # 0
                      THEN [shared_tasks EXCEPT
                               ![copy.existing].copied_task_id = copy.task_id,
                               ![copy.existing].is_active = TRUE]
                      ELSE Append(shared_tasks,
                               SharedTask(copy.user, copy.original, copy.task_id))
              /\ copy' = Ended("copied")
    /\ UNCHANGED <<kinds, next_id, subtasks, lastOp, calls>>
    /\ UNCHANGED <<attachments, copied>>
    /\ UNCHANGED <<streamVars, confVars>>

\* remove_shared_task: the active relation of (user, original task) is
\* deactivated
RemoveSharedTask(user, original_task_id) ==
    LET found == {i \in DOMAIN shared_tasks :
                     /\ shared_tasks[i].user_id = user
                     /\ shared_tasks[i].original_task_id = original_task_id
                     /\ shared_tasks[i].is_active}
    IN
    /\ IF found = {}
         THEN /\ lastOp' = Op("remove_shared_task", original_task_id, NoIn, "none", "404")
              /\ UNCHANGED shared_tasks
         ELSE /\ \E i \in found :
                    shared_tasks' = [shared_tasks EXCEPT ![i].is_active = FALSE]
              /\ lastOp' = Op("remove_shared_task", original_task_id, NoIn, "none", "ok")
    /\ UNCHANGED <<kinds, next_id, subtasks, calls>>
    /\ UNCHANGED <<attachments, copy, copied>>
    /\ UNCHANGED <<streamVars, confVars>>

\* a file is attached to a USER subtask
AttachFile(subtask_id) ==
    /\ subtask_id \in DOMAIN subtasks
    /\ subtasks[subtask_id].role = "USER"
    /\ subtasks[subtask_id].status # "DELETE"
    /\ Cardinality({i \in DOMAIN attachments :
                       attachments[i].user_id = subtasks[subtask_id].user_id})
           < MaxAttachments
    /\ attachments' = Append(attachments,
           [subtask_id |-> subtask_id, user_id |-> subtasks[subtask_id].user_id,
            binary_data |-> "file"])
    /\ UNCHANGED <<kinds, next_id, subtasks, lastOp, calls>>
    /\ UNCHANGED <<shared_tasks, copy, copied>>
    /\ UNCHANGED <<streamVars, confVars>>

\* ------------------------------------------------------ lifecycle specification
LifeInit ==
    /\ kinds = <<>>
    /\ next_id = 1
    /\ subtasks = <<>>
    /\ lastOp = Op("none", 0, NoIn, "none", "")
    /\ calls = [c \in Calls |-> NoRequest]
    /\ shared_tasks = <<>>
    /\ attachments = <<>>
    /\ copy = NoCopy
    /\ copied = {}
    /\ team_members = InitialMembers

UpdateInputs ==
    [status : TaskStatuses \cup {"unset"}, fields : {"none", "all"},
     partial : {"none"}, signal : {""}, team : {""}, failed : {{}}]
    \cup {[NoIn EXCEPT !.fields = "oversize"]}

\* the model follows one task, created by alice: a second task is never created
NoTaskYet == \A i \in DOMAIN kinds : kinds[i].kind # "Task"

Next ==
    \/ \E user \in Users, task_id \in 0..next_id :
          /\ task_id = 0 => (NoTaskYet /\ user = "alice")
          /\ CreateTaskOrAppend(user, "coordinate_team", task_id, "p0")
    \/ \E user \in Users, task_id \in 1..(next_id - 1), in \in UpdateInputs :
          /\ (ActiveTask(task_id) /\ kinds[task_id].user_id = user) \/ in = NoIn
          /\ UpdateTask(user, task_id, in)
    \/ \E user \in Users, task_id \in 1..(next_id - 1) :
          \E failed \in SUBSET unique_executor_keys(task_id) :
              DeleteTask(user, task_id, failed)
    \/ \E user \in Users, subtask_id \in 1..Len(subtasks),
          partial \in {"none", "x"}, delivered \in BOOLEAN :
          /\ \/ /\ subtasks[subtask_id].user_id = user
                /\ subtasks[subtask_id].status \in {"PENDING", "RUNNING"}
             \/ (partial = "none" /\ ~ delivered)
          /\ CancelChat(user, subtask_id, partial, delivered)
    \/ \E subtask_id \in 1..Len(subtasks) : ExecutorStart(subtask_id)

Init ==
    /\ LifeInit
    /\ StreamInit

Spec == Init /\ [][Next]_vars

SpecStream == Init /\ [][StreamNext]_vars

\* the stream with the subtask's task deleted under it and with cleanups that
\* raise
FaultyStreamNext ==
    \/ StreamNext
    \/ DeleteSubtask
    \/ SetupRaise
    \/ \E by \in {"message", "status"}, held \in BOOLEAN :
          LoopEndCleanupRaises(by, held)

SpecStreamFaults == Init /\ [][FaultyStreamNext]_vars

\* the stream with its generator scheduled: the event loop resumes the
\* generator's pending step, and the receive loop's waits time out, so the
\* periodic status check keeps being reached
SpecStreamLive ==
    /\ Init
    /\ [][StreamNext]_vars
    /\ WF_vars(ReadCache)
    /\ WF_vars(CheckStatus)
    /\ WF_vars(\E ok \in BOOLEAN : Subscribe(ok))
    /\ WF_vars(LoopStatusCheck)

\* the Team document is edited: its members are replaced
EditTeam(team, new_members) ==
    /\ team_members' = [team_members EXCEPT ![team] = new_members]
    /\ UNCHANGED <<kinds, next_id, subtasks, lastOp, calls, shareVars>>
    /\ UNCHANGED streamVars

\* the member lists a team is edited to, besides the one it was set up with
MemberLists == {<<>>, <<"ghost">>, <<"bot1">>, <<"bot1", "ghost">>}

\* groups appended for teams that are edited in between; executors pick the
\* new ASSISTANT subtasks up, status updates finish the task
GroupNext ==
    \/ \E team \in Teams, task_id \in 0..(next_id - 1) :
          /\ task_id = 0 => NoTaskYet
          /\ task_id # 0 => ActiveTask(task_id)
          /\ CreateTaskOrAppend("alice", team, task_id, "p0")
    \/ \E task_id \in 1..(next_id - 1), status \in {"COMPLETED", "FAILED"} :
          /\ ActiveTask(task_id)
          /\ kinds[task_id].status = "PENDING"
          /\ UpdateTask("alice", task_id, [NoIn EXCEPT !.status = status])
    \/ \E subtask_id \in 1..Len(subtasks) :
          /\ ActiveTask(subtasks[subtask_id].task_id)
          /\ kinds[subtasks[subtask_id].task_id].status = "PENDING"
          /\ ExecutorStart(subtask_id)
    \/ \E team \in Teams :
        \E new_members \in MemberLists \cup {InitialMembers[team]} :
          /\ new_members # team_members[team]
          /\ \A other \in Teams \ {team} : team_members[other] = InitialMembers[other]
          /\ \A i \in DOMAIN kinds :
                 kinds[i].kind = "Task" =>
                     (kinds[i].team = team /\ kinds[i].status # "PENDING")
          /\ EditTeam(team, new_members)

SpecGroups == Init /\ [][GroupNext]_vars

\* the chain builder on its own: groups appended for either team, the task
\* finished in between by status updates
ChainNext ==
    \/ \E team \in Teams, task_id \in 0..next_id, prompt \in {"p0", "oversize"} :
          /\ task_id = 0 => NoTaskYet
          /\ CreateTaskOrAppend("alice", team, task_id, prompt)
    \/ \E task_id \in 1..(next_id - 1), status \in TaskStatuses :
          /\ ActiveTask(task_id)
          /\ UpdateTask("alice", task_id, [NoIn EXCEPT !.status = status])

SpecChain == Init /\ [][ChainNext]_vars


\* requests interleaved statement by statement; a task is finished by a
\* status update so that it can be appended to
AllocNext ==
    \/ \E c \in Calls, op \in {"allocate", "validate", "create"},
          user \in Users, task_id \in 0..(next_id - 1) :
          /\ \A d \in Calls : d < c => calls[d].pc # "idle"
          /\ Begin(c, op, user, task_id)
    \/ \E c \in Calls : AllocSelect(c)
    \/ \E c \in Calls : AllocInsert(c)
    \/ \E c \in Calls : ValidateSelect(c)
    \/ \E c \in Calls : ValidateDelete(c)
    \/ \E c \in Calls : CreateLookup(c)
    \/ \E c \in Calls, no_bots \in BOOLEAN : CreateBuild(c, no_bots)
    \/ \E c \in Calls : CreateCommit(c)
    \/ \E task_id \in 1..(next_id - 1) :
          /\ ActiveTask(task_id)
          /\ kinds[task_id].status = "PENDING"
          /\ UpdateTask(kinds[task_id].user_id, task_id,
                        [NoIn EXCEPT !.status = "COMPLETED"])

SpecAlloc == Init /\ [][AllocNext]_vars

\* the subtasks of a task that are not finished
Unfinished(task_id) ==
    {i \in DOMAIN subtasks : /\ subtasks[i].task_id = task_id
                              /\ subtasks[i].status \in {"PENDING", "RUNNING"}}

\* the executor reports a RUNNING subtask COMPLETED; with the last one of the
\* task it reports the Task COMPLETED
ExecutorFinish(subtask_id) ==
    LET task_id == subtasks[subtask_id].task_id IN
    /\ subtask_id \in DOMAIN subtasks
    /\ subtasks[subtask_id].status = "RUNNING"
    /\ subtasks' = [subtasks EXCEPT ![subtask_id].status = "COMPLETED",
                                    ![subtask_id].progress = 100]
    /\ kinds' = IF ActiveTask(task_id) /\ Unfinished(task_id) = {subtask_id}
                  THEN [kinds EXCEPT ![task_id] =
                           ApplyUpdate(@, [NoIn EXCEPT !.status = "COMPLETED"])]
                  ELSE kinds
    /\ lastOp' = Op("executor_finish", subtask_id, NoIn, "RUNNING", "ok")
    /\ UNCHANGED next_id
    /\ UNCHANGED <<streamVars, calls, shareVars, confVars>>

\* alice's task of either team, created and appended to by create_or_append
\* and by chat stream requests, worked on by an executor that takes the
\* subtasks in order and reports the Task finished with its last subtask,
\* cancelled and deleted
FinishNext ==
    \/ \E team \in Teams, task_id \in 0..(next_id - 1) :
          /\ task_id = 0 => NoTaskYet
          /\ task_id # 0 => ActiveTask(task_id)
          /\ CreateTaskOrAppend("alice", team, task_id, "p0")
    \/ \E team \in Teams, task_id \in 0..(next_id - 1) :
          /\ task_id = 0 => NoTaskYet
          /\ task_id # 0 => (ActiveTask(task_id) /\ kinds[task_id].team = team)
          /\ CreateTaskAndSubtasks("alice", team, task_id)
    \/ \E task_id \in 1..(next_id - 1), status \in {"RUNNING", "FAILED"} :
          /\ ActiveTask(task_id)
          /\ kinds[task_id].status = "PENDING"
          /\ UpdateTask("alice", task_id, [NoIn EXCEPT !.status = status])
    \/ \E subtask_id \in 1..Len(subtasks) :
          /\ ActiveTask(subtasks[subtask_id].task_id)
          /\ \A i \in Unfinished(subtasks[subtask_id].task_id) : subtask_id <= i
          /\ ExecutorStart(subtask_id)
    \/ \E subtask_id \in 1..Len(subtasks) : ExecutorFinish(subtask_id)
    \/ \E subtask_id \in 1..Len(subtasks) :
          /\ subtasks[subtask_id].status \in {"PENDING", "RUNNING"}
          /\ CancelChat("alice", subtask_id, "x", TRUE)
    \/ \E task_id \in 1..(next_id - 1) :
          /\ ActiveTask(task_id)
          /\ DeleteTask("alice", task_id, {})

SpecFinish == Init /\ [][FinishNext]_vars

\* alice's task, finished once, and then append requests to it that run
\* statement by statement, each in its own session
AppendNext ==
    \/ /\ NoTaskYet
       /\ CreateTaskOrAppend("alice", "coordinate_team", 0, "p0")
    \/ \E task_id \in 1..(next_id - 1), status \in {"COMPLETED", "FAILED"} :
          /\ ActiveTask(task_id)
          /\ kinds[task_id].status = "PENDING"
          /\ \A c \in Calls : calls[c].pc = "idle"
          /\ UpdateTask("alice", task_id, [NoIn EXCEPT !.status = status])
    \/ \E c \in Calls, user \in Users, task_id \in 1..(next_id - 1) :
          /\ \A d \in Calls : d < c => calls[d].pc # "idle"
          /\ ActiveTask(task_id)
          /\ Begin(c, "create", user, task_id)
    \/ \E c \in Calls : ValidateSelect(c)
    \/ \E c \in Calls : CreateLookup(c)
    \/ \E c \in Calls, no_bots \in BOOLEAN : CreateBuild(c, no_bots)
    \/ \E c \in Calls : CreateCommit(c)

SpecAppends == Init /\ [][AppendNext]_vars

\* alice's task, worked on until it is shared; bob copying it through its share
\* token, removing the relation and deleting his copies; alice deleting the
\* original at any moment
ShareNext ==
    \/ /\ NoTaskYet
       /\ CreateTaskOrAppend("alice", "coordinate_team", 0, "p0")
    \/ \E task_id \in 1..(next_id - 1), status \in {"RUNNING", "COMPLETED", "CANCELLING"} :
          /\ copy.pc = "idle"
          /\ ActiveTask(task_id)
          /\ kinds[task_id].status = "PENDING"
          /\ UpdateTask("alice", task_id, [NoIn EXCEPT !.status = status])
    \/ \E subtask_id \in 1..Len(subtasks) :
          /\ copy.pc = "idle"
          /\ ExecutorStart(subtask_id)
    \/ \E task_id \in 1..(next_id - 1) :
          /\ ActiveTask(task_id)
          /\ DeleteTask(kinds[task_id].user_id, task_id, {})
    \/ \E subtask_id \in 1..Len(subtasks) :
          /\ copy.pc = "idle"
          /\ AttachFile(subtask_id)
    \/ \E subtask_id \in 1..Len(subtasks) :
          /\ copy.pc = "idle"
          /\ subtasks[subtask_id].status \in {"PENDING", "RUNNING"}
          /\ CancelChat("alice", subtask_id, "x", TRUE)
    \/ \E owner \in Users \cup {""}, task_id \in 1..(next_id - 1) :
          /\ owner # "alice" => (task_id = 1 /\ copy.pc = "idle")
          /\ JoinBegin("bob", owner, task_id)
    \/ \E team \in {"bob_team", "coordinate_team"},
          ws \in {"none", "repo", "repo_fields"}, provision_fails \in BOOLEAN :
          /\ team # "bob_team" => ws = "none"
          /\ CopyResolve(team, ws, provision_fails)
    \/ \E failure \in {"none", "subtask", "attachment"} : CopySubtask(failure)
    \/ \E fails \in BOOLEAN : CopyCommit(fails)
    \/ \E fails \in BOOLEAN : JoinRelate(fails)
    \/ \E original_task_id \in 1..(next_id - 1) :
          /\ ExistingShare("bob", original_task_id) # 0
          /\ RemoveSharedTask("bob", original_task_id)

SpecShare == Init /\ [][ShareNext]_vars

\* ------------------------------------------------------------ stream claims
Events == {received[i] : i \in DOMAIN received}

\* event e carries the character at position p (1-based) of the logical string
Covers(e, p) == e.offset < p /\ p <= e.offset + Len(e.content)

\* the current call has ended with a terminal event
StreamEnded == out # <<>> /\ out[Len(out)].kind = "done"

\* C1: for a client that always resumes from the position just past the last
\* character it received, once a stream ends with the terminal event the
\* content events received, ordered and deduplicated by offset, concatenate to
\* exactly the final accumulated content: no gap and no overlap.
C1_MonotonicOffsets ==
    (disciplined /\ StreamEnded) =>
        /\ \A p \in 1..Len(cache) :
              \E e \in Events : Covers(e, p) /\ e.content[p - e.offset] = cache[p]
        /\ \A e1, e2 \in Events :
              e1.offset # e2.offset =>
                  ~ \E p \in 1..(MaxLen + 1) : Covers(e1, p) /\ Covers(e2, p)
        /\ \A e \in Events : e.offset + Len(e.content) <= Len(cache)

\* C2: every content event carries the absolute position, in the logical
\* accumulated string, at which its content begins.
C2_OffsetIsAbsolutePosition ==
    disciplined =>
        \A i \in DOMAIN out :
            out[i].kind = "content" =>
                /\ out[i].offset + Len(out[i].content) <= Len(cache)
                /\ out[i].content =
                       SubSeq(cache, out[i].offset + 1,
                              out[i].offset + Len(out[i].content))

\* C3: resume on a COMPLETED subtask returns, for every offset, at most one
\* content event holding final_content[offset:] and then one terminal event
\* with offset = len(final_content), done and the stored result; a repeated
\* call with the same offset returns the same stream, and the call changes
\* neither the row nor the cache nor any subscription.
C3_CompletedResumeIdempotent ==
    (pc = "closed" /\ mode = "completed") =>
        LET final == ValueOf(row.result) IN
        /\ row.status = "COMPLETED"
        /\ subtask = row
        /\ ~ pubsub
        /\ out[Len(out)] = DoneEv(Len(final), row.result)
        /\ offset < Len(final) =>
              /\ Len(out) = 2
              /\ out[1].kind = "content"
              /\ out[1].offset = offset
              /\ SubSeq(final, 1, offset) \o out[1].content = final
        /\ offset >= Len(final) => Len(out) = 1
        /\ (prev.valid /\ prev.offset = offset) => prev.out = out

C3_Witness ==
    /\ pc = "closed"
    /\ mode = "completed"
    /\ prev.valid
    /\ prev.offset = offset
    /\ offset > 0
    /\ offset < Len(ValueOf(row.result))

\* --------------------------------------------------------- lifecycle claims
\* C4: after cancel on a PENDING or RUNNING subtask of the caller returns, the
\* Subtask is COMPLETED (never CANCELLED) with progress 100, empty error
\* message and result {value: partial_content} ("" when none is supplied), and
\* the parent Task is COMPLETED with an empty errorMessage.
C4_CancelFinalization ==
    (lastOp.op = "cancel" /\ lastOp.pre_sub \in {"PENDING", "RUNNING"}) =>
        LET s == subtasks[lastOp.id]
            partial == lastOp.in.partial
        IN /\ lastOp.ret = "success: true"
           /\ s.status = "COMPLETED"
           /\ s.progress = 100
           /\ s.error_message = ""
           /\ ~ s.result.isnull
           /\ s.result.value = (IF partial = "none" THEN "" ELSE partial)
           /\ s.task_id \in DOMAIN kinds
           /\ kinds[s.task_id].status = "COMPLETED"
           /\ kinds[s.task_id].errorMessage = ""

C4_Witness ==
    /\ lastOp.op = "cancel"
    /\ lastOp.pre_sub = "RUNNING"
    /\ lastOp.in.partial = "x"
    /\ subtasks[lastOp.id].result.value = "x"

\* C5: the finalization is committed by the cancel call itself, whatever
\* becomes of the cancellation signal: delivered or lost, the Subtask and its
\* Task are COMPLETED when the call returns.
C5_FinalizeRegardlessOfSignal ==
    \A signal \in {"delivered", "lost"} :
        (/\ lastOp.op = "cancel"
         /\ lastOp.pre_sub \in {"PENDING", "RUNNING"}
         /\ lastOp.in.signal = signal) =>
            /\ lastOp.ret = "success: true"
            /\ subtasks[lastOp.id].status = "COMPLETED"
            /\ kinds[subtasks[lastOp.id].task_id].status = "COMPLETED"

C5_Witness ==
    /\ lastOp.op = "cancel"
    /\ lastOp.in.signal = "lost"
    /\ lastOp.ret = "success: true"
    /\ subtasks[lastOp.id].status = "COMPLETED"

\* C6: cancel on a subtask that is already COMPLETED changes neither the
\* Subtask nor the Task and reports success.
C6_CancelIdempotent ==
    [][(lastOp'.op = "cancel" /\ lastOp'.pre_sub = "COMPLETED") =>
          /\ lastOp'.ret = "success: true"
          /\ subtasks' = subtasks
          /\ kinds' = kinds]_vars

FieldsApplied(task) ==
    /\ task.progress = 50
    /\ task.result = "r1"
    /\ task.errorMessage = "e1"
    /\ task.title = "t1"
    /\ task.prompt = "p1"

\* C7: an update of a Task in CANCELLING with a target other than CANCELLED
\* or FAILED leaves the status at CANCELLING and still applies every other
\* supplied field; with target CANCELLED or FAILED the status becomes the
\* target.
C7_CancellingGuard ==
    [][\A t \in DOMAIN kinds :
          (/\ lastOp'.op = "update"
           /\ lastOp'.ret = "ok"
           /\ lastOp'.id = t
           /\ kinds[t].status = "CANCELLING") =>
              /\ kinds'[t].status =
                     (IF lastOp'.in.status \in {"CANCELLED", "FAILED"}
                        THEN lastOp'.in.status ELSE "CANCELLING")
              /\ lastOp'.in.fields = "all" => FieldsApplied(kinds'[t])]_vars

C7_Witness ==
    /\ lastOp.op = "update"
    /\ lastOp.ret = "ok"
    /\ lastOp.in.status = "RUNNING"
    /\ lastOp.in.fields = "all"
    /\ kinds[lastOp.id].status = "CANCELLING"
    /\ FieldsApplied(kinds[lastOp.id])

\* C8: once a Task's status is terminal, no update sets it to a non-terminal
\* status: the status field of such a call is dropped and the other supplied
\* fields are applied.
C8_TerminalNeverRegresses ==
    [][\A t \in DOMAIN kinds :
          (/\ lastOp'.op = "update"
           /\ lastOp'.id = t
           /\ kinds[t].status \in final_states) =>
              /\ kinds'[t].status \in final_states
              /\ (lastOp'.ret = "ok" /\ lastOp'.in.status \in non_final_states) =>
                    /\ kinds'[t].status = kinds[t].status
                    /\ lastOp'.in.fields = "all" => FieldsApplied(kinds'[t])]_vars

C8_Witness ==
    /\ lastOp.op = "update"
    /\ lastOp.ret = "ok"
    /\ lastOp.in.status = "RUNNING"
    /\ lastOp.in.fields = "all"
    /\ kinds[lastOp.id].status = "COMPLETED"
    /\ FieldsApplied(kinds[lastOp.id])

\* C9: the status DELETE is entered only through the delete operation and is
\* never left, whatever update, create_or_append or cancel calls follow.
C9_DeleteOnlyViaDelete ==
    [][\A t \in DOMAIN kinds :
          kinds[t].kind = "Task" =>
              /\ (kinds[t].status # "DELETE" /\ kinds'[t].status = "DELETE") =>
                     lastOp'.op = "delete"
              /\ kinds[t].status = "DELETE" => kinds'[t].status = "DELETE"]_vars

\* C10: every group appended for the pipeline team is one USER subtask
\* followed by one ASSISTANT subtask per member, in member order, each bound
\* to that member's bot, with consecutive message_ids and each ASSISTANT's
\* parent_id equal to the message_id of the subtask right before it.
C10_PipelineChainIntegrity ==
    \A i \in DOMAIN subtasks :
        (subtasks[i].role = "USER" /\ subtasks[i].team = "pipeline_team") =>
            LET m == members("pipeline_team") IN
            /\ i + Len(m) <= Len(subtasks)
            /\ (i + Len(m) < Len(subtasks)) => subtasks[i + Len(m) + 1].role = "USER"
            /\ \A k \in 1..Len(m) :
                  /\ subtasks[i + k].role = "ASSISTANT"
                  /\ subtasks[i + k].bot_ids = <<m[k]>>
                  /\ subtasks[i + k].message_id = subtasks[i].message_id + k
                  /\ subtasks[i + k].parent_id = subtasks[i + k - 1].message_id

\* -------------------------------------------------------- message chain, ids
\* message_ids of the task's subtasks below message_id m
Lower(task_id, m) ==
    {subtasks[j].message_id : j \in {k \in DOMAIN subtasks :
        subtasks[k].task_id = task_id /\ subtasks[k].message_id < m}}

Max(S) == CHOOSE x \in S : \A y \in S : y <= x

\* C11: within one task the message_ids are pairwise distinct and every
\* subtask's parent_id is the message_id of the subtask with the next lower
\* message_id, 0 for the first subtask of the task; this holds after every
\* successful append.
C11_MessageIdChain ==
    \A i \in DOMAIN subtasks :
        /\ \A j \in DOMAIN subtasks :
              (i # j /\ subtasks[i].task_id = subtasks[j].task_id) =>
                  subtasks[i].message_id # subtasks[j].message_id
        /\ LET lower == Lower(subtasks[i].task_id, subtasks[i].message_id)
           IN subtasks[i].parent_id = (IF lower = {} THEN 0 ELSE Max(lower))

\* the calls whose id came from create_task_id
Allocators == {d \in Calls : /\ calls[d].op \in {"allocate", "create"}
                             /\ ~ calls[d].given
                             /\ calls[d].task_id # 0}

\* create_task_id returns to call c in this step
AllocateReturns(c) ==
    /\ calls[c].pc \in {"select", "insert"}
    /\ calls'[c].pc \notin {"select", "insert"}

\* C12 (as stated): the id create_task_id returns differs from the ids returned
\* to the other users and from every id an existing document already holds.
C12_AllocatedIdsFresh ==
    [][\A c \in Calls : AllocateReturns(c) =>
          /\ calls'[c].task_id \notin DOMAIN kinds
          /\ \A d \in Allocators :
                calls[d].user # calls[c].user =>
                    calls[d].task_id # calls'[c].task_id]_vars

\* C12 (amended): the id create_task_id returns differs from the ids returned
\* to the other users, and it is held by no existing document other than an
\* unconsumed Placeholder of the calling user.
C12_AllocatedIdsDistinct ==
    [][\A c \in Calls : AllocateReturns(c) =>
          /\ \/ calls'[c].task_id \notin DOMAIN kinds
             \/ calls'[c].task_id \in Placeholders(calls[c].user)
          /\ \A d \in Allocators :
                calls[d].user # calls[c].user =>
                    calls[d].task_id # calls'[c].task_id]_vars

C12_Witness ==
    /\ calls[1].op = "allocate" /\ calls[1].pc = "done"
    /\ calls[2].op = "allocate" /\ calls[2].pc = "done"
    /\ calls[1].user # calls[2].user
    /\ calls[1].task_id # calls[2].task_id
    /\ {calls[1].task_id, calls[2].task_id} \subseteq DOMAIN kinds

\* C13: when a Placeholder of the user exists, create_task_id returns its id
\* and inserts nothing; so a second allocate by the same user, with no validate
\* in between, returns the id the first one returned.
C13_AllocateReusesPlaceholder ==
    [][\A c \in Calls :
          (/\ calls[c].pc = "select"
           /\ calls'[c].pc # "select"
           /\ Placeholders(calls[c].user) # {}) =>
              /\ kinds' = kinds
              /\ next_id' = next_id
              /\ calls'[c].pc # "insert"
              /\ calls'[c].task_id \in Placeholders(calls[c].user)
              /\ \A d \in Calls :
                    (/\ calls[d].op = "allocate"
                     /\ calls[d].pc = "done"
                     /\ calls[d].user = calls[c].user
                     /\ Placeholders(calls[c].user) = {calls[d].task_id}) =>
                        calls'[c].task_id = calls[d].task_id]_vars

C13_Witness ==
    /\ calls[1].op = "allocate" /\ calls[1].pc = "done"
    /\ calls[2].op = "allocate" /\ calls[2].pc = "done"
    /\ calls[1].user = calls[2].user
    /\ calls[1].task_id = calls[2].task_id
    /\ DOMAIN kinds = {calls[1].task_id}

\* C14: two create_or_append calls without a task id by one user each create
\* their own Task under an id of their own: none fails with an invalid-id or
\* duplicate-id error and none is treated as an append to the other's Task.
C14_ConcurrentCreateOwnIds ==
    \A c, d \in Calls :
        (/\ c # d
         /\ calls[c].op = "create" /\ ~ calls[c].given /\ calls[c].pc = "done"
         /\ calls[d].op = "create" /\ ~ calls[d].given /\ calls[d].pc = "done"
         /\ calls[c].user = calls[d].user
         /\ calls[c].ret \notin {"404 team", "400 no valid bots"}
         /\ calls[d].ret \notin {"404 team", "400 no valid bots"}) =>
            /\ calls[c].ret = "created"
            /\ calls[d].ret = "created"
            /\ calls[c].task_id # calls[d].task_id

\* validate_task_id returns to call c in this step
Valid(call) == call.pc = "lookup" \/ call.ret = "valid"

Invalid(call) == call.pc = "done" /\ call.ret \in {"invalid", "400 invalid task_id"}

\* C15: validate returns valid and deletes the document when the id maps to a
\* Placeholder, returns valid and changes nothing when it maps to a document
\* of another kind, and returns invalid and changes nothing when it maps to no
\* document; so a second validate of an allocated id is invalid.
C15_ValidateContract ==
    [][\A c \in Calls :
          LET task_id == calls[c].task_id IN
          /\ (calls[c].pc = "validate" /\ calls'[c].pc # "validate") =>
                /\ kinds' = kinds
                /\ task_id \notin DOMAIN kinds => Invalid(calls'[c])
                /\ (task_id \in DOMAIN kinds /\ kinds[task_id].kind # "Placeholder")
                       => Valid(calls'[c])
                /\ (task_id \in DOMAIN kinds /\ kinds[task_id].kind = "Placeholder")
                       => calls'[c].pc = "validate_delete"
          /\ (/\ calls[c].pc = "validate_delete"
              /\ calls'[c].pc # "validate_delete"
              /\ task_id \in DOMAIN kinds
              /\ kinds[task_id].kind = "Placeholder") =>
                /\ Valid(calls'[c])
                /\ DOMAIN kinds' = DOMAIN kinds \ {task_id}
                /\ \A i \in DOMAIN kinds' : kinds'[i] = kinds[i]]_vars

C15_Witness ==
    /\ calls[1].op = "create" /\ ~ calls[1].given /\ calls[1].ret = "404 team"
    /\ calls[2].op = "validate" /\ calls[2].task_id = calls[1].task_id
    /\ calls[2].ret = "invalid"

\* C16: nothing create_task_or_append writes is visible before its commit, the
\* commit writes the Task together with its Workspace and the Subtasks of the
\* group, and a call that fails after validation commits nothing: no Task, no
\* Workspace, no Subtask, and the existing Task of an append is left as it was.
C16_CreateOrAppendAtomic ==
    [][\A c \in Calls :
          (calls[c].pc \in {"lookup", "build", "commit"} /\ calls'[c] # calls[c]) =>
              LET task_id == calls[c].task_id IN
              IF calls'[c].ret = "created"
                THEN /\ kinds'[task_id].kind = "Task"
                     /\ kinds'[next_id].kind = "Workspace"
                     /\ DOMAIN kinds' = DOMAIN kinds \cup {task_id, next_id}
                     /\ Len(subtasks') = Len(subtasks) + 2
                     /\ \A i \in (Len(subtasks) + 1)..Len(subtasks') :
                           subtasks'[i].task_id = task_id
              ELSE IF calls'[c].ret = "appended"
                THEN /\ kinds'[task_id].status = "PENDING"
                     /\ kinds'[task_id].progress = 0
                     /\ Len(subtasks') = Len(subtasks) + 2
                     /\ \A i \in (Len(subtasks) + 1)..Len(subtasks') :
                           subtasks'[i].task_id = task_id
              ELSE /\ kinds' = kinds
                   /\ subtasks' = subtasks
                   /\ next_id' = next_id]_vars

C16_Witness ==
    \E c \in Calls :
        /\ calls[c].op = "create"
        /\ calls[c].branch = "append"
        /\ calls[c].ret = "400 no valid bots"
        /\ kinds[calls[c].task_id].status = "COMPLETED"

\* ------------------------------------------------- create_or_append rejections
\* C17: create_or_append on an existing Task whose status is RUNNING, PENDING
\* or CANCELLING fails with a 400, creates no Subtask and leaves the Task
\* unchanged; it appends only when the status is COMPLETED, FAILED or
\* CANCELLED.
C17_AppendOnlyToFinished ==
    [][\A t \in DOMAIN kinds :
          (/\ lastOp'.op = "create_or_append"
           /\ lastOp'.id = t
           /\ ActiveTask(t)) =>
              /\ kinds[t].status \in non_final_states =>
                    /\ lastOp'.ret \in {"400 still running", "400 in progress"}
                    /\ subtasks' = subtasks
                    /\ kinds' = kinds
              /\ lastOp'.ret = "appended" =>
                    kinds[t].status \in {"COMPLETED", "FAILED", "CANCELLED"}]_vars

C17_Witness ==
    /\ lastOp.op = "create_or_append"
    /\ lastOp.ret = "400 in progress"
    /\ ActiveTask(lastOp.id)
    /\ kinds[lastOp.id].status = "CANCELLING"

\* C18: create_or_append with the id of a Task that has been deleted fails
\* with "Task has delete" (400) and creates or modifies no Task, Workspace or
\* Subtask.
C18_AppendToDeletedIsGone ==
    [][\A t \in DOMAIN kinds :
          (/\ lastOp'.op = "create_or_append"
           /\ lastOp'.id = t
           /\ kinds[t].kind = "Task"
           /\ kinds[t].status = "DELETE"
           /\ ~ kinds[t].is_active) =>
              /\ lastOp'.ret = "400 deleted"
              /\ kinds' = kinds
              /\ subtasks' = subtasks]_vars

\* C19: create_or_append rejects a prompt of more than 60,000 UTF-8 bytes,
\* when it creates a task and when it appends to one, and then creates no
\* Subtask and changes no Task.
C19_OversizePromptRejected ==
    [][(lastOp'.op = "create_or_append" /\ lastOp'.in.fields = "oversize") =>
          /\ lastOp'.ret \notin {"created", "appended"}
          /\ subtasks' = subtasks
          /\ \A t \in DOMAIN kinds :
                kinds[t].kind = "Task" => (t \in DOMAIN kinds' /\ kinds'[t] = kinds[t])
          /\ \A t \in DOMAIN kinds' :
                kinds'[t].kind = "Task" => t \in DOMAIN kinds]_vars

\* C20: delete on an active Task of the caller succeeds whichever executor
\* teardowns fail: afterwards the Task document exists with status DELETE and
\* is_active = false, and every Subtask of the task has status DELETE and its
\* executor marked torn down.
C20_DeleteSurvivesTeardownFailures ==
    [][\A t \in DOMAIN kinds :
          (/\ lastOp'.op = "delete"
           /\ lastOp'.id = t
           /\ lastOp'.ret # "404"
           /\ ActiveTask(t)) =>
              /\ lastOp'.ret = "ok"
              /\ t \in DOMAIN kinds'
              /\ kinds'[t].kind = "Task"
              /\ kinds'[t].status = "DELETE"
              /\ ~ kinds'[t].is_active
              /\ \A i \in DOMAIN subtasks' :
                    subtasks'[i].task_id = t =>
                        /\ subtasks'[i].status = "DELETE"
                        /\ subtasks'[i].executor_deleted_at
              /\ Len(subtasks') = Len(subtasks)]_vars

C20_Witness ==
    /\ lastOp.op = "delete"
    /\ lastOp.ret = "ok"
    /\ Cardinality(lastOp.in.failed) = 2
    /\ kinds[lastOp.id].status = "DELETE"
    /\ \E i \in DOMAIN subtasks :
          subtasks[i].task_id = lastOp.id /\ subtasks[i].executor_name # ""

\* ------------------------------------------------- status changes and stamps
\* the state-machine guard as a relation between a Task's status before and
\* after a request
ObeysGuard(before, after) ==
    /\ before = "CANCELLING" => after \in {"CANCELLING", "CANCELLED", "FAILED"}
    /\ before \in final_states => after \notin non_final_states

\* C27: create_or_append's reset to PENDING and delete apart, every change an
\* operation (update, cancel) makes to a Task's status obeys the state-machine
\* guard: from CANCELLING only to CANCELLED or FAILED, and never from a
\* terminal status to a non-terminal one.
C27_StatusChangesObeyGuard ==
    [][\A t \in DOMAIN kinds :
          (/\ lastOp'.op \in {"update", "cancel"}
           /\ kinds[t].kind = "Task"
           /\ t \in DOMAIN kinds'
           /\ kinds'[t].status # kinds[t].status) =>
              ObeysGuard(kinds[t].status, kinds'[t].status)]_vars

\* C28: update stamps completedAt exactly on the calls that move the Task into
\* COMPLETED, FAILED or CANCELLED: it is stamped when the status change is
\* accepted and the new status is one of the three, and left as it was when the
\* call carries no status or the guard drops its status.
C28_CompletedAtOnTerminalTransition ==
    [][\A t \in DOMAIN kinds :
          (/\ lastOp'.op = "update"
           /\ lastOp'.id = t
           /\ lastOp'.ret = "ok") =>
              LET in == lastOp'.in
                  accepted == /\ in.status # "unset"
                              /\ GuardedStatus(kinds[t].status, in.status) = in.status
              IN IF accepted /\ in.status \in {"COMPLETED", "FAILED", "CANCELLED"}
                   THEN kinds'[t].completedAt = "stamped"
                   ELSE kinds'[t].completedAt = kinds[t].completedAt]_vars

LastKind == IF out = <<>> THEN "none" ELSE out[Len(out)].kind

\* C29: a live resume does not hang on a missed completion signal: once the
\* subtask's durable status is outside {RUNNING, PENDING} while the receive
\* loop runs, and the loop keeps being scheduled, the call ends; when the
\* periodic check ends it, the last event is the terminal event for COMPLETED
\* and an error event otherwise. (The client going away ends it as well.)
C29_ResumeEndsOnTerminalStatus ==
    (pc = "loop" /\ row.status \notin {"RUNNING", "PENDING"})
        ~> (/\ pc = "closed"
            /\ exit \in {"status", "done", "legacy", "exception", "disconnect"}
            /\ exit = "status" =>
                  LastKind = IF row.status = "COMPLETED" THEN "done" ELSE "error")

C29_Witness ==
    /\ pc = "closed"
    /\ mode = "resume"
    /\ exit = "status"
    /\ completed_at = "subscribe"
    /\ LastKind = "done"

\* the characters the events carry, in the order sent
RECURSIVE Delivered(_)
Delivered(evs) ==
    IF evs = <<>> THEN <<>> ELSE Head(evs).content \o Delivered(Tail(evs))

CopyFailures ==
    {"400 team", "400 workspace", "500 subtask", "500 attachment", "500 commit"}

\* the committed rows of a copy: its Subtasks, and the attachments on them
SubtasksOfTask(task_id) ==
    {i \in DOMAIN subtasks : subtasks[i].task_id = task_id}

AttachmentsOfTask(task_id) ==
    {i \in DOMAIN attachments : attachments[i].subtask_id \in SubtasksOfTask(task_id)}

\* C21: the copy is all-or-nothing. While _copy_task_with_subtasks runs, and
\* after it has failed (team, workspace, a subtask, an attachment, or its
\* commit), the new user holds exactly the rows held when the request began:
\* no Task, Workspace, Subtask or attachment of the copy is in the tables. A
\* copy that is in the tables is whole: the Task with one Subtask per subtask
\* selected from the original and every attachment copied for them.
C21_CopyAllOrNothing ==
    /\ copy.pc \in {"resolve", "subtasks", "commit"} =>
           Holdings(copy.user) = copy.base
    /\ (copy.pc = "done" /\ copy.ret \in CopyFailures) =>
           Holdings(copy.user) = copy.base
    /\ \A c \in copied :
           /\ c.task_id \in DOMAIN kinds
           /\ kinds[c.task_id].kind = "Task"
           /\ Cardinality(SubtasksOfTask(c.task_id)) = c.subtasks
           /\ Cardinality(AttachmentsOfTask(c.task_id)) = c.attachments

\* a copy failed in its second round, after the Task and one Subtask had been
\* flushed; the ids they took are gone and no row is left
C21_Witness ==
    /\ copy.pc = "done"
    /\ copy.ret = "500 subtask"
    /\ copy.flushed = 1
    /\ next_id - 1 \notin DOMAIN kinds
    /\ Holdings(copy.user) = copy.base

\* the active Tasks a user holds as committed copies of an original task
ActiveCopies(user, original) ==
    {c \in copied : /\ c.user = user
                    /\ c.original = original
                    /\ ActiveTask(c.task_id)
                    /\ kinds[c.task_id].user_id = user}

\* a relation of (user, original task), active or not, whose copied task is
\* an active Task of the user
RelationToActiveCopy(user, original) ==
    \E i \in DOMAIN shared_tasks :
        /\ shared_tasks[i].user_id = user
        /\ shared_tasks[i].original_task_id = original
        /\ CopyAlive(user, i)

\* C22: join_shared_task goes on to copy only when no relation of (user,
\* original task) points at an active Task of the user (otherwise it fails
\* with "already copied" and creates nothing); hence a user never holds two
\* active copies of one original task.
C22_NoSecondActiveCopy ==
    [][/\ (copy.pc \in {"idle", "done"} /\ copy'.pc = "resolve") =>
              ~ RelationToActiveCopy(copy'.user, copy'.original)
       /\ \A user \in Users, original \in DOMAIN kinds' :
              Cardinality(ActiveCopies(user, original)') <= 1]_vars

\* at most one relation per (user_id, original_task_id)
OneRelationPerPair ==
    \A i, j \in DOMAIN shared_tasks :
        ( /\ shared_tasks[i].user_id = shared_tasks[j].user_id
          /\ shared_tasks[i].original_task_id = shared_tasks[j].original_task_id )
        => i = j

\* C23: there is at most one SharedTask relation per (user_id,
\* original_task_id). A join that found a relation of the pair (its copy
\* deleted, or the relation deactivated) writes the new copied_task_id and
\* is_active = true into that relation and adds none; a join that found none
\* adds one; remove_shared_task deletes nothing and changes nothing but the
\* is_active flag of one relation, to false.
C23_OneRelationPerUserAndOriginal ==
    [][/\ OneRelationPerPair'
       /\ Len(shared_tasks') >= Len(shared_tasks)
       /\ (copy.pc = "relate" /\ copy'.ret = "copied") =>
              IF copy.existing # 0
                THEN shared_tasks' =
                        [shared_tasks EXCEPT ![copy.existing] =
                            SharedTask(copy.user, copy.original, copy.task_id)]
                ELSE shared_tasks' = Append(shared_tasks,
                        SharedTask(copy.user, copy.original, copy.task_id))
       /\ (lastOp'.op = "remove_shared_task" /\ copy' = copy
                                              /\ shared_tasks' # shared_tasks) =>
              \E i \in DOMAIN shared_tasks :
                  /\ shared_tasks[i].is_active
                  /\ shared_tasks' = [shared_tasks EXCEPT ![i].is_active = FALSE]]_vars

\* the one relation of (bob, task 1) was deactivated and is active again,
\* pointing at the second copy
C23_Witness ==
    /\ copy.pc = "done"
    /\ copy.ret = "copied"
    /\ Cardinality(copied) = 2
    /\ Len(shared_tasks) = 1
    /\ shared_tasks[1].is_active
    /\ \E c \in copied : c.task_id < shared_tasks[1].copied_task_id

\* the rows a committing copy adds to the subtasks table
NewSubtasks ==
    SubSeq(subtasks', Len(subtasks) + 1, Len(subtasks'))

\* C24: a successful copy selects exactly the original task's subtasks whose
\* status is not DELETE, in message_id order, and adds one new subtask for
\* each, with the role, message_id, parent_id, prompt and result of the
\* original subtask, owned by the new user under the new task, status
\* COMPLETED and progress 100 whatever the original's status was; the
\* original Task and every existing subtask row are left as they were.
C24_CopyDuplicatesSubtasks ==
    [][/\ (copy.pc = "resolve" /\ copy'.pc \in {"subtasks", "commit"}) =>
              /\ {copy'.source[k].id : k \in DOMAIN copy'.source} =
                     {i \in DOMAIN subtasks :
                         /\ subtasks[i].task_id = copy.original
                         /\ subtasks[i].status # "DELETE"}
              /\ \A k \in DOMAIN copy'.source :
                     /\ copy'.source[k].row = subtasks[copy'.source[k].id]
                     /\ \A l \in DOMAIN copy'.source :
                            k < l => copy'.source[k].row.message_id
                                        <= copy'.source[l].row.message_id
                            /\ copy'.source[k].id # copy'.source[l].id
              /\ UNCHANGED <<kinds, subtasks>>
       /\ (copy.pc = "subtasks" /\ copy'.pc \in {"subtasks", "commit"}
                                /\ copy' # copy) =>
              UNCHANGED <<kinds, subtasks>>
       /\ (copy.pc = "commit" /\ copy'.pc = "relate") =>
              /\ Len(subtasks') = Len(subtasks) + Len(copy.source)
              /\ SubSeq(subtasks', 1, Len(subtasks)) = subtasks
              /\ \A i \in DOMAIN kinds : kinds'[i] = kinds[i]
              /\ \A k \in DOMAIN copy.source :
                     LET new == NewSubtasks[k]
                         old == copy.source[k].row
                     IN /\ new.role = old.role
                        /\ new.message_id = old.message_id
                        /\ new.parent_id = old.parent_id
                        /\ new.prompt = old.prompt
                        /\ new.result = old.result
                        /\ new.status = "COMPLETED"
                        /\ new.progress = 100
                        /\ new.task_id = copy.task_id
                        /\ new.user_id = copy.user]_vars

\* a copy is in the tables whose ASSISTANT subtask is COMPLETED at progress
\* 100 while the original's, with the same message_id, still is RUNNING
C24_Witness ==
    /\ copy.pc = "relate"
    /\ \E i, j \in DOMAIN subtasks :
           /\ subtasks[i].task_id = copy.original
           /\ subtasks[i].status = "RUNNING"
           /\ subtasks[j].task_id = copy.task_id
           /\ subtasks[j].message_id = subtasks[i].message_id
           /\ subtasks[j].role = "ASSISTANT"
           /\ subtasks[j].status = "COMPLETED"
           /\ subtasks[j].progress = 100

\* C25: the Task a successful copy commits has a finished status of its own
\* (COMPLETED, FAILED or CANCELLED), whatever the original's status was when
\* it was copied.
C25_CopiedTaskIsFinished ==
    [][(copy.pc = "commit" /\ copy'.pc = "relate") =>
           kinds'[copy.task_id].status \in {"COMPLETED", "FAILED", "CANCELLED"}]_vars

\* ------------------------------------------------------------ resume, errors
\* C31: a resume call on a subtask that is FAILED at call time is answered by
\* a stream of exactly one error event, which then ends; a call on a subtask
\* whose status is none of COMPLETED, FAILED, RUNNING, PENDING is refused
\* (HTTP 400, no stream); in both cases no subscription is opened and neither
\* the row nor the cache changes.
C31_ResumeOnFailedOrUnresumable ==
    [][(resumes' = resumes + 1) =>
           /\ row.status = "FAILED" =>
                  (out' = <<ErrorEv>> /\ pc' = "closed")
           /\ row.status \notin {"COMPLETED", "FAILED", "RUNNING", "PENDING"} =>
                  (http' = "400" /\ out' = <<>> /\ pc' = "closed")
           /\ row.status \notin {"COMPLETED", "RUNNING", "PENDING"} =>
                  (pubsub' = pubsub /\ row' = row /\ cache' = cache)]_vars

\* an event that closes a stream: the terminal event or an error event
ClosingEv(e) == e.kind \in {"done", "error"}

\* C32: a resume stream holds at most one closing event (terminal or error),
\* nothing follows it, and a stream the handler has ended (not one the client
\* left) ends with it. An exception at any point of the live resume (cache
\* read, subscribe, receive, status refresh, cleanup) therefore gives one
\* error event, never a second closing event nor an error event after the
\* terminal one.
C32_OneClosingEvent ==
    mode \in {"resume", "completed"} =>
        /\ \A i \in DOMAIN out : ClosingEv(out[i]) => i = Len(out)
        /\ (pc = "closed" /\ exit # "disconnect") =>
               (out # <<>> /\ ClosingEv(out[Len(out)]))

\* --------------------------------------------------------------- append_group
\* the rows the step adds to the subtasks table
AddedRows == SubSeq(subtasks', Len(subtasks) + 1, Len(subtasks'))

\* the rows of a task before the step, and the most recent of them
PriorRows(task_id) ==
    {i \in DOMAIN subtasks : subtasks[i].task_id = task_id}

MostRecent(task_id) ==
    CHOOSE i \in PriorRows(task_id) :
        \A j \in PriorRows(task_id) :
            subtasks[j].message_id <= subtasks[i].message_id

\* every member's bot reference resolves
AllBotsResolve(team) ==
    \A i \in DOMAIN members(team) : BotExists(members(team)[i])

PreviousGroup(task_id) ==
    {i \in PriorRows(task_id) :
        /\ subtasks[i].role = "ASSISTANT"
        /\ \A j \in PriorRows(task_id) :
               subtasks[j].role = "USER" =>
                   subtasks[j].message_id < subtasks[i].message_id}

\* the executor binding of the n-th row of the previous group in message_id
\* order, empty when the group has no n-th row
PreviousBinding(task_id, n) ==
    LET nth == {i \in PreviousGroup(task_id) :
                   Cardinality({j \in PreviousGroup(task_id) :
                       subtasks[j].message_id < subtasks[i].message_id}) = n - 1}
    IN IF nth = {} THEN "" ELSE subtasks[CHOOSE i \in nth : TRUE].executor_name

\* C34: in pipeline mode a create_or_append that goes through adds one
\* ASSISTANT subtask per team member, and the i-th of them carries the
\* executor binding of the i-th ASSISTANT subtask, in message_id order, of the
\* task's most recent previous group; where that group has no i-th subtask,
\* or the task has no previous group, the binding is empty.
C34_PipelineBindingsPositional ==
    [][(/\ Len(subtasks') > Len(subtasks)
        /\ collaborationModel(AddedRows[1].team) = "pipeline") =>
           LET task_id == AddedRows[1].task_id
               team == AddedRows[1].team
           IN /\ Len(AddedRows) = 1 + Len(members(team))
              /\ AddedRows[1].role = "USER"
              /\ \A i \in 1..Len(members(team)) :
                     /\ AddedRows[1 + i].role = "ASSISTANT"
                     /\ AddedRows[1 + i].bot_ids = <<members(team)[i]>>
                     /\ AddedRows[1 + i].message_id = AddedRows[1].message_id + i
                     /\ AddedRows[1 + i].executor_name =
                            PreviousBinding(task_id, i)]_vars

\* a follow-up group of three whose first and third subtasks carry the
\* executors of the previous group's first and third, the second, never
\* started, an empty binding
C34_Witness ==
    /\ lastOp.op = "create_or_append"
    /\ lastOp.ret = "appended"
    /\ Len(subtasks) = 8
    /\ subtasks[2].executor_name = ExecutorName(2)
    /\ subtasks[3].executor_name = ""
    /\ subtasks[4].executor_name = ExecutorName(4)
    /\ subtasks[6].executor_name = ExecutorName(2)
    /\ subtasks[7].executor_name = ""
    /\ subtasks[8].executor_name = ExecutorName(4)

\* the failures of an invalid team configuration (HTTP 400)
InvalidConfiguration == {"400 no members", "400 no valid bots"}

\* C35: create_or_append adds subtasks only for a team that has members and
\* whose members' bots all resolve; for any other team, in either
\* collaboration mode, it fails with an invalid-configuration error. It never
\* goes through with a subtask bound to the resolvable part of the team.
C35_UnresolvedBotRejected ==
    [][/\ Len(subtasks') > Len(subtasks) =>
              /\ members(AddedRows[1].team) # <<>>
              /\ AllBotsResolve(AddedRows[1].team)
       /\ (lastOp'.op = "create_or_append" /\ lastOp' # lastOp
                                           /\ Len(subtasks') = Len(subtasks)) =>
              lastOp'.ret \in InvalidConfiguration \cup
                  {"400 invalid task_id", "404 team", "400 prompt too long",
                   "500 duplicate id", "400 still running", "400 deleted",
                   "400 in progress"}]_vars

\* The original of a share token has been deleted by its owner: the row is
\* still there, with is_active false
DeletedOriginal(task_id) ==
    /\ task_id \in DOMAIN kinds
    /\ kinds[task_id].kind = "Task"
    /\ ~ kinds[task_id].is_active

\* A step that begins a copy with the token the owner generated for task_id
JoinWithOwnersToken(task_id) ==
    /\ copy.pc \in {"idle", "done"}
    /\ copy' # copy
    /\ copy'.original = task_id
    /\ copy'.owner = kinds[task_id].user_id
    /\ copy'.user # copy'.owner

\* C36: once the owner has deleted the original, a copy through its share
\* token fails with NotFound, not with InvalidToken, and creates no Task, no
\* Subtask and no relation
C36_DeletedOriginalIsNotFound ==
    [][\A task_id \in DOMAIN kinds :
          (DeletedOriginal(task_id) /\ JoinWithOwnersToken(task_id))
             => /\ copy'.pc = "done"
                /\ copy'.ret = "404"
                /\ UNCHANGED <<kinds, subtasks, shared_tasks>>]_vars

\* The requests that have appended their group
Appended == {c \in Calls : calls[c].pc = "done" /\ calls[c].ret = "appended"}

\* Two rows of one task with the same message_id
DuplicateMessageId ==
    \E i, j \in DOMAIN subtasks :
        /\ i # j
        /\ subtasks[i].task_id = subtasks[j].task_id
        /\ subtasks[i].message_id = subtasks[j].message_id

\* C37: of the append requests that run concurrently on a Task finished once,
\* at most one appends its group, and no two rows of the task have the same
\* message_id
C37_ConcurrentAppendsSerialized ==
    /\ Cardinality(Appended) <= 1
    /\ ~ DuplicateMessageId

\* a relation of the copy's user for its original task whose copied_task_id
\* is the copy
RelationPointsAt(c) ==
    \E i \in DOMAIN shared_tasks :
        /\ shared_tasks[i].user_id = c.user
        /\ shared_tasks[i].original_task_id = c.original
        /\ shared_tasks[i].copied_task_id = c.task_id

\* every relation points at a Task row that a copy of its original by its
\* user has committed
RelationsPointAtCopies ==
    \A i \in DOMAIN shared_tasks :
        \E c \in copied :
            /\ c.task_id = shared_tasks[i].copied_task_id
            /\ c.user = shared_tasks[i].user_id
            /\ c.original = shared_tasks[i].original_task_id
            /\ c.task_id \in DOMAIN kinds
            /\ kinds[c.task_id].kind = "Task"

\* C38: the copied Task and its relation are recorded together. In every
\* state of the tables, between the steps of join_shared_task and after a
\* failed call included, a Task committed by a copy is in the kinds table if
\* and only if a SharedTask relation of its user for its original task has
\* copied_task_id pointing at it.
C38_CopyAndRelationAtomic ==
    /\ \A c \in copied : c.task_id \in DOMAIN kinds => RelationPointsAt(c)
    /\ RelationsPointAtCopies

\* request c is a create_or_append that was given the id of a row of another
\* user, and this step is one of its statements
StepOnForeignRow(c) ==
    /\ calls'[c] # calls[c]
    /\ calls[c].op = "create"
    /\ calls[c].given
    /\ calls[c].pc # "idle"
    /\ calls[c].task_id \in DOMAIN kinds
    /\ kinds[calls[c].task_id].user_id # calls[c].user

ForeignRowErrors == {"404 team", "400 invalid task_id"}

\* C39: create_or_append with an existing_task_id touches only rows of the
\* calling user. A call given the id of another user's Task, or of another
\* user's Placeholder, changes no Task, adds no Subtask and deletes no
\* Placeholder, and ends with NotFound or the invalid-id error.
C39_OnlyOwnTaskTouched ==
    [][\A c \in Calls :
          StepOnForeignRow(c) =>
              /\ UNCHANGED <<kinds, subtasks>>
              /\ calls'[c].pc = "done" => calls'[c].ret \in ForeignRowErrors]_vars

\* a Task whose status is COMPLETED while a Subtask of it is PENDING or RUNNING
FinishedAhead(task_id) ==
    /\ task_id \in DOMAIN kinds
    /\ kinds[task_id].kind = "Task"
    /\ kinds[task_id].status = "COMPLETED"
    /\ Unfinished(task_id) # {}

\* C40: a Task and its subtasks finish together: a Task whose status is
\* COMPLETED has no Subtask in status PENDING or RUNNING
C40_TaskAndSubtasksFinishTogether ==
    \A task_id \in DOMAIN kinds : ~ FinishedAhead(task_id)

====
